---- MODULE Spec2Model ----
(***************************************************************************)
(* A model of the interactive transform engine of the CanvasKit editor:    *)
(* the pointer/keyboard dispatcher (lib/editor/event-handlers), the hover  *)
(* resolver (lib/utils/hover-detection), the session state kept by the     *)
(* Editor component and its frame scheduling (scheduleDraw / drawScene).   *)
(*                                                                         *)
(* Numbers.  The code computes with floats.  The model computes with       *)
(* integers and keeps every quantity exact:                                *)
(*   - a zoom is a fraction [num, den];                                    *)
(*   - hit tests are evaluated in units of 1/(2*zoom.num) world units, so  *)
(*     that width/2 and 30/zoom are integers;                              *)
(*   - rotations are whole degrees and only multiples of 90 degrees occur, *)
(*     for which sine and cosine are exact; a pointer move whose result    *)
(*     would leave this number domain is outside the modelled inputs (the  *)
(*     guards named Representable... say so).                              *)
(* Indices are the code's 0-based indices; shapes[i + 1] is the code's     *)
(* shapes[i].  A nullable value is a sequence of length 0 (null) or 1.     *)
(***************************************************************************)
EXTENDS Integers, Sequences, FiniteSets, TLC

\* ------------------------------------------------------------------------
\* Program constants
\* ------------------------------------------------------------------------
INVALID_INDEX == -1
ROTATE_CIRCLE_OFFSET == 30
circleRadius == 12
minCircleRadius == 12
MIN_SIZE == 10
\* rotate: number | null -- the null of a shape's rotation
ROTATE_NULL == -1

Null == <<>>
Some(v) == <<v>>
IsNull(o) == o = <<>>
Val(o) == o[1]

NO_CORNER == "null"
Corners == {"top-left", "top-right", "bottom-left", "bottom-right"}
\* the order in which getHoveredResizeCorner tries the corners
cornerOrder == <<"top-right", "bottom-right", "bottom-left", "top-left">>

\* ------------------------------------------------------------------------
\* Arithmetic helpers
\* ------------------------------------------------------------------------
Abs(a) == IF a < 0 THEN -a ELSE a
Max(a, b) == IF a >= b THEN a ELSE b
Min(a, b) == IF a <= b THEN a ELSE b
IsExact(a, b) == b # 0 /\ (Abs(a) % Abs(b)) = 0
\* exact quotient, used only under IsExact
Quot(a, b) == IF (a < 0) = (b < 0) THEN Abs(a) \div Abs(b) ELSE -(Abs(a) \div Abs(b))
Pt(px, py) == [x |-> px, y |-> py]

\* cosine and sine of a multiple of 90 degrees
Cos(deg) == CASE deg % 360 = 0 -> 1 [] deg % 360 = 90 -> 0
              [] deg % 360 = 180 -> -1 [] deg % 360 = 270 -> 0
Sin(deg) == CASE deg % 360 = 0 -> 0 [] deg % 360 = 90 -> 1
              [] deg % 360 = 180 -> 0 [] deg % 360 = 270 -> -1
RightAngle(deg) == deg % 90 = 0

\* ------------------------------------------------------------------------
\* lib/utils/coordinates.ts
\* ------------------------------------------------------------------------
\* (screen - pan) / zoom is a whole number of world units
RepresentableWorld(screenX, screenY, cam) ==
    /\ IsExact((screenX - cam.panX) * cam.zoom.den, cam.zoom.num)
    /\ IsExact((screenY - cam.panY) * cam.zoom.den, cam.zoom.num)

screenToWorld(screenX, screenY, cam) ==
    Pt(Quot((screenX - cam.panX) * cam.zoom.den, cam.zoom.num),
       Quot((screenY - cam.panY) * cam.zoom.den, cam.zoom.num))

\* ------------------------------------------------------------------------
\* lib/utils/hit-test.ts
\* ------------------------------------------------------------------------
isPointInRect(point, x, y, width, height) ==
    /\ point.x >= x
    /\ point.x <= x + width
    /\ point.y >= y
    /\ point.y <= y + height

isPointInCircle(point, centerX, centerY, radius) ==
    LET dx == point.x - centerX
        dy == point.y - centerY
        distanceSquared == dx * dx + dy * dy
    IN distanceSquared <= radius * radius

\* the hit test returning the first drawn shape that contains the point
RECURSIVE findUpFrom(_, _, _)
findUpFrom(point, shapeList, i) ==
    IF i >= Len(shapeList) THEN -1
    ELSE LET shape == shapeList[i + 1]
         IN IF isPointInRect(point, shape.x, shape.y, shape.width, shape.height)
            THEN i
            ELSE findUpFrom(point, shapeList, i + 1)
findShapeAtPoint_firstDrawn(point, shapeList) == findUpFrom(point, shapeList, 0)

RECURSIVE findFrom(_, _, _)
findFrom(point, shapeList, i) ==
    IF i < 0 THEN -1
    ELSE LET shape == shapeList[i + 1]
         IN IF isPointInRect(point, shape.x, shape.y, shape.width, shape.height)
            THEN i
            ELSE findFrom(point, shapeList, i - 1)

findShapeAtPoint(point, shapeList) == findFrom(point, shapeList, Len(shapeList) - 1)

\* ------------------------------------------------------------------------
\* lib/utils/transform.ts  (points in half world units where noted)
\* ------------------------------------------------------------------------
\* twice the centre of the shape: 2 * (x + width / 2), 2 * (y + height / 2)
getShapeCenter2(shape) == Pt(2 * shape.x + shape.width, 2 * shape.y + shape.height)

rotatePoint(point, center, rotationDeg) ==
    IF rotationDeg = 0 THEN point
    ELSE LET dx == point.x - center.x
             dy == point.y - center.y
             rotatedX == dx * Cos(rotationDeg) - dy * Sin(rotationDeg)
             rotatedY == dx * Sin(rotationDeg) + dy * Cos(rotationDeg)
         IN Pt(rotatedX + center.x, rotatedY + center.y)

inverseRotatePoint(point, center, rotationDeg) ==
    rotatePoint(point, center, (360 - rotationDeg) % 360)

\* the point in the shape's unrotated space, in half world units
worldToLocalSpace2(point, shape, rotation) ==
    IF rotation = ROTATE_NULL \/ rotation = 0
    THEN Pt(2 * point.x, 2 * point.y)
    ELSE inverseRotatePoint(Pt(2 * point.x, 2 * point.y), getShapeCenter2(shape), rotation)

\* the angle of an axis direction; atan2(0, 0) is 0
RepresentableAngle(point, center2) ==
    2 * point.x = center2.x \/ 2 * point.y = center2.y

getAngleToPoint(point, center2) ==
    LET dx == 2 * point.x - center2.x
        dy == 2 * point.y - center2.y
    IN CASE dy = 0 /\ dx >= 0 -> 0
         [] dx = 0 /\ dy > 0 -> 90
         [] dy = 0 /\ dx < 0 -> 180
         [] dx = 0 /\ dy < 0 -> 270

\* the delta without the wrap-around correction
calculateRotationDelta_raw(initialAngle, currentAngle) == currentAngle - initialAngle

calculateRotationDelta(initialAngle, currentAngle) ==
    LET delta == currentAngle - initialAngle
    IN IF delta > 180 THEN delta - 360
       ELSE IF delta < -180 THEN delta + 360
       ELSE delta

\* ------------------------------------------------------------------------
\* lib/utils/resize.ts
\* ------------------------------------------------------------------------
\* the world-space hit radius times zoom.num
getResizeCircleRadius(zoom) ==
    Max(circleRadius * zoom.num, minCircleRadius * zoom.den)

\* corner positions in half world units
getShapeCorners2(shape) ==
    [c \in Corners |->
        CASE c = "top-left" -> Pt(2 * shape.x, 2 * shape.y)
          [] c = "top-right" -> Pt(2 * (shape.x + shape.width), 2 * shape.y)
          [] c = "bottom-left" -> Pt(2 * shape.x, 2 * (shape.y + shape.height))
          [] c = "bottom-right" ->
                Pt(2 * (shape.x + shape.width), 2 * (shape.y + shape.height))]

\* all lengths in units of 1 / (2 * zoom.num)
isHoveringRotateCircle(point, shape, zoom, rotation) ==
    LET radius == 2 * getResizeCircleRadius(zoom)
        centerX == zoom.num * (2 * shape.x + shape.width)
        centerY == 2 * zoom.num * shape.y - 2 * ROTATE_CIRCLE_OFFSET * zoom.den
        local == worldToLocalSpace2(point, shape, rotation)
        transformedPoint == Pt(zoom.num * local.x, zoom.num * local.y)
    IN isPointInCircle(transformedPoint, centerX, centerY, radius)

RECURSIVE cornerFrom(_, _, _, _, _)
cornerFrom(k, transformedPoint, corners, radius, zoom) ==
    IF k > Len(cornerOrder) THEN NO_CORNER
    ELSE LET corner == corners[cornerOrder[k]]
         IN IF isPointInCircle(transformedPoint,
                               zoom.num * corner.x, zoom.num * corner.y, radius)
            THEN cornerOrder[k]
            ELSE cornerFrom(k + 1, transformedPoint, corners, radius, zoom)

getHoveredResizeCorner(point, shape, zoom, rotation) ==
    LET radius == 2 * getResizeCircleRadius(zoom)
        corners == getShapeCorners2(shape)
        local == worldToLocalSpace2(point, shape, rotation)
        transformedPoint == Pt(zoom.num * local.x, zoom.num * local.y)
    IN cornerFrom(1, transformedPoint, corners, radius, zoom)

getAnchorPoint(corner, shape) ==
    CASE corner = "top-left" -> Pt(shape.x + shape.width, shape.y + shape.height)
      [] corner = "top-right" -> Pt(shape.x, shape.y + shape.height)
      [] corner = "bottom-left" -> Pt(shape.x + shape.width, shape.y)
      [] corner = "bottom-right" -> Pt(shape.x, shape.y)

\* aspectRatio is the fraction [num, den]
RepresentableDimensions(anchor, mousePos, aspectRatio) ==
    LET absDx == Abs(mousePos.x - anchor.x)
        absDy == Abs(mousePos.y - anchor.y)
    IN IF absDx > absDy
       THEN IsExact(absDx * aspectRatio.den, aspectRatio.num)
       ELSE IsExact(absDy * aspectRatio.num, aspectRatio.den)

\* the dimensions taking the larger of |dx| and |dy| * aspectRatio as the width
calculateDimensionsFromAnchor_max(anchor, mousePos, aspectRatio) ==
    LET absDx == Abs(mousePos.x - anchor.x)
        absDy == Abs(mousePos.y - anchor.y)
    IN IF absDx * aspectRatio.den > absDy * aspectRatio.num
       THEN [width |-> absDx, height |-> Quot(absDx * aspectRatio.den, aspectRatio.num)]
       ELSE [width |-> Quot(absDy * aspectRatio.num, aspectRatio.den), height |-> absDy]

\* the dimensions always derived from the vertical delta
calculateDimensionsFromAnchor_heightFirst(anchor, mousePos, aspectRatio) ==
    LET absDy == Abs(mousePos.y - anchor.y)
    IN [width |-> Quot(absDy * aspectRatio.num, aspectRatio.den), height |-> absDy]

calculateDimensionsFromAnchor(anchor, mousePos, aspectRatio) ==
    LET dx == mousePos.x - anchor.x
        dy == mousePos.y - anchor.y
        absDx == Abs(dx)
        absDy == Abs(dy)
    IN IF absDx > absDy
       THEN [width |-> absDx, height |-> Quot(absDx * aspectRatio.den, aspectRatio.num)]
       ELSE [width |-> Quot(absDy * aspectRatio.num, aspectRatio.den), height |-> absDy]

calculatePositionFromAnchor(corner, anchor, width, height) ==
    CASE corner = "top-left" -> Pt(anchor.x - width, anchor.y - height)
      [] corner = "top-right" -> Pt(anchor.x, anchor.y - height)
      [] corner = "bottom-left" -> Pt(anchor.x - width, anchor.y)
      [] corner = "bottom-right" -> Pt(anchor.x, anchor.y)

RepresentableMinSize(width, height, aspectRatio, minSize) ==
    IF width >= minSize /\ height >= minSize THEN TRUE
    ELSE IF width < height
         THEN IsExact(Max(height, minSize) * aspectRatio.num, aspectRatio.den)
         ELSE IsExact(Max(width, minSize) * aspectRatio.den, aspectRatio.num)

\* the clamp applied to each dimension on its own
applyMinSizeConstraints_perAxis(width, height, aspectRatio, minSize) ==
    [width |-> Max(width, minSize), height |-> Max(height, minSize)]

applyMinSizeConstraints(width, height, aspectRatio, minSize) ==
    IF width >= minSize /\ height >= minSize
    THEN [width |-> width, height |-> height]
    ELSE IF width < height
         THEN LET newHeight == Max(height, minSize)
              IN [width |-> Quot(newHeight * aspectRatio.num, aspectRatio.den),
                  height |-> newHeight]
         ELSE LET newWidth == Max(width, minSize)
              IN [width |-> newWidth,
                  height |-> Quot(newWidth * aspectRatio.den, aspectRatio.num)]

\* ------------------------------------------------------------------------
\* lib/utils/shape-operations.ts
\* ------------------------------------------------------------------------
RotationOf(shape) == IF shape.rotate = ROTATE_NULL THEN 0 ELSE shape.rotate

\* initialAngle is kept only where the model represents it (an axis direction)
initializeRotation(shape, mouseWorldPos) ==
    [initialRotation |-> RotationOf(shape),
     initialAngle |-> IF RepresentableAngle(mouseWorldPos, getShapeCenter2(shape))
                      THEN Some(getAngleToPoint(mouseWorldPos, getShapeCenter2(shape)))
                      ELSE Null]

RepresentableRotation(rotationState, mouseWorldPos, shapeCenter2) ==
    /\ ~IsNull(rotationState.initialAngle)
    /\ RepresentableAngle(mouseWorldPos, shapeCenter2)

\* the new rotation without the normalisation
calculateRotation_raw(rotationState, mouseWorldPos, shapeCenter2) ==
    rotationState.initialRotation
    + calculateRotationDelta(Val(rotationState.initialAngle),
                             getAngleToPoint(mouseWorldPos, shapeCenter2))

calculateRotation(rotationState, mouseWorldPos, shapeCenter2) ==
    LET currentAngle == getAngleToPoint(mouseWorldPos, shapeCenter2)
        rotationDelta == calculateRotationDelta(Val(rotationState.initialAngle), currentAngle)
        newRotation == rotationState.initialRotation + rotationDelta
    IN IF newRotation < 0 THEN newRotation + 360
       ELSE IF newRotation >= 360 THEN newRotation - 360
       ELSE newRotation

initializeResize(shape, mouseWorldPos) ==
    [shape |-> shape,
     startMousePos |-> mouseWorldPos,
     aspectRatio |-> [num |-> shape.width, den |-> shape.height]]

\* the pointer in the start shape's local space, in whole world units
LocalMouse(resizeState, mouseWorldPos, rotation) ==
    LET local == worldToLocalSpace2(mouseWorldPos, resizeState.shape, rotation)
    IN Pt(Quot(local.x, 2), Quot(local.y, 2))

RepresentableResize(resizeState, corner, mouseWorldPos, rotation) ==
    LET local == worldToLocalSpace2(mouseWorldPos, resizeState.shape, rotation)
        anchor == getAnchorPoint(corner, resizeState.shape)
        mouse == LocalMouse(resizeState, mouseWorldPos, rotation)
        dims == calculateDimensionsFromAnchor(anchor, mouse, resizeState.aspectRatio)
    IN /\ IsExact(local.x, 2) /\ IsExact(local.y, 2)
       /\ RepresentableDimensions(anchor, mouse, resizeState.aspectRatio)
       /\ RepresentableMinSize(dims.width, dims.height, resizeState.aspectRatio, MIN_SIZE)

calculateResize(resizeState, corner, mouseWorldPos, rotation) ==
    LET localMousePos == LocalMouse(resizeState, mouseWorldPos, rotation)
        anchor == getAnchorPoint(corner, resizeState.shape)
        raw == calculateDimensionsFromAnchor(anchor, localMousePos, resizeState.aspectRatio)
        dims == applyMinSizeConstraints(raw.width, raw.height,
                                        resizeState.aspectRatio, MIN_SIZE)
        pos == calculatePositionFromAnchor(corner, anchor, dims.width, dims.height)
    IN [x |-> pos.x, y |-> pos.y, width |-> dims.width, height |-> dims.height]

\* ------------------------------------------------------------------------
\* lib/utils/hover-state.ts, lib/utils/hover-detection.ts
\* ------------------------------------------------------------------------
createHoverState ==
    [shapeIndex |-> INVALID_INDEX, resizeCorner |-> NO_CORNER,
     isHoveringRotateCircle |-> FALSE]

\* the resolver reporting the shape under the pointer whatever else it found
detectHover_alwaysShape(worldPos, shapeList, selectedShapeIndex, zoom, selectedValid) ==
    LET selected == shapeList[selectedShapeIndex + 1]
        rotation == selected.rotate
        overRotate == selectedValid
                      /\ isHoveringRotateCircle(worldPos, selected, zoom, rotation)
        corner == IF selectedValid /\ ~overRotate
                  THEN getHoveredResizeCorner(worldPos, selected, zoom, rotation)
                  ELSE NO_CORNER
    IN [isHoveringRotateCircle |-> overRotate,
        resizeCorner |-> corner,
        shapeIndex |-> findShapeAtPoint(worldPos, shapeList)]

\* the resolver testing the resize corners before the rotation handle
detectHover_cornerFirst(worldPos, shapeList, selectedShapeIndex, zoom, selectedValid) ==
    LET selected == shapeList[selectedShapeIndex + 1]
        rotation == selected.rotate
        corner == IF selectedValid
                  THEN getHoveredResizeCorner(worldPos, selected, zoom, rotation)
                  ELSE NO_CORNER
        overRotate == selectedValid /\ corner = NO_CORNER
                      /\ isHoveringRotateCircle(worldPos, selected, zoom, rotation)
        foundShapeIndex == findShapeAtPoint(worldPos, shapeList)
    IN [isHoveringRotateCircle |-> overRotate,
        resizeCorner |-> corner,
        shapeIndex |-> IF ~overRotate /\ corner = NO_CORNER
                          /\ foundShapeIndex # selectedShapeIndex
                       THEN foundShapeIndex
                       ELSE INVALID_INDEX]

\* the resolver reporting the shape under the pointer even when it is the
\* selected one
detectHover_reportSelected(worldPos, shapeList, selectedShapeIndex, zoom, selectedValid) ==
    LET selected == shapeList[selectedShapeIndex + 1]
        rotation == selected.rotate
        overRotate == selectedValid
                      /\ isHoveringRotateCircle(worldPos, selected, zoom, rotation)
        corner == IF selectedValid /\ ~overRotate
                  THEN getHoveredResizeCorner(worldPos, selected, zoom, rotation)
                  ELSE NO_CORNER
    IN [isHoveringRotateCircle |-> overRotate,
        resizeCorner |-> corner,
        shapeIndex |-> IF ~overRotate /\ corner = NO_CORNER
                       THEN findShapeAtPoint(worldPos, shapeList)
                       ELSE INVALID_INDEX]

\* selectedValid is isValidShapeIndex(selectedShapeIndex), which the caller
\* evaluates on the live shape list; shapeList is the list the caller holds.
detectHover(worldPos, shapeList, selectedShapeIndex, zoom, selectedValid) ==
    LET selected == shapeList[selectedShapeIndex + 1]
        rotation == selected.rotate
        overRotate == selectedValid
                      /\ isHoveringRotateCircle(worldPos, selected, zoom, rotation)
        corner == IF selectedValid /\ ~overRotate
                  THEN getHoveredResizeCorner(worldPos, selected, zoom, rotation)
                  ELSE NO_CORNER
        foundShapeIndex == findShapeAtPoint(worldPos, shapeList)
    IN [isHoveringRotateCircle |-> overRotate,
        resizeCorner |-> corner,
        shapeIndex |-> IF ~overRotate /\ corner = NO_CORNER
                          /\ foundShapeIndex # selectedShapeIndex
                       THEN foundShapeIndex
                       ELSE INVALID_INDEX]

\* shapes[selectedShapeIndex] is undefined and its rotate is read
detectHoverThrows(shapeList, selectedShapeIndex, selectedValid) ==
    selectedValid /\ selectedShapeIndex >= Len(shapeList)

\* updateHoverState copies the three fields; it returns whether one differed
updateHoverState(currentState, newState) == newState
hoverNeedsUpdate(currentState, newState) == currentState # newState

\* ------------------------------------------------------------------------
\* Bounds of the model and the scenes it loads
\* ------------------------------------------------------------------------
\* geometry-changing pointer moves explored in one behaviour
MaxTransforms == 1
\* undo snapshots the model keeps (the editor keeps HISTORY_LIMIT)
MaxHistory == 1
\* frame callbacks that may be pending at once
MaxCallbacks == 2
\* shapes a page may hold after pasting
MaxShapes == 3
HISTORY_LIMIT == 30

ImageShape(id, x, y, width, height) ==
    [id |-> id, kind |-> "image", x |-> x, y |-> y,
     width |-> width, height |-> height, rotate |-> ROTATE_NULL]
ShapeA == ImageShape(1, -60, -20, 40, 40)
ShapeB == ImageShape(2, -30, 0, 40, 40)
\* the pages a document load or a remote page sync may deliver
Scenes == {"A", "AB", "empty"}
SceneOf(name) ==
    CASE name = "A" -> <<ImageShape(1, -60, -20, 40, 40)>>
      [] name = "AB" -> <<ImageShape(1, -60, -20, 40, 40), ImageShape(2, -30, 0, 40, 40)>>
      [] name = "empty" -> <<>>
InitialScene == <<ShapeA>>

\* loadPage centres the camera: panX = canvasWidth / 2, panY = canvasHeight / 2
PanStart == Pt(100, 100)
\* calculateInitialZoom fits the page into 70% of the canvas: zoom 1 here
InitialZoom == [num |-> 1, den |-> 1]

\* pointer positions (canvas pixels) the events carry
Points == {<<60, 100>>,   \* the centre of A
           <<60, 60>>,    \* within the rotation handle of A, off its body
           <<80, 80>>}    \* the top-right corner of A
At(q) == Pt(q[1], q[2])

VARIABLES
    shapes,                 \* Shape[]
    selectedShape,          \* {index, rendered}
    hoverState,             \* {shapeIndex, resizeCorner, isHoveringRotateCircle}
    mouseState,             \* {isMouseDown, isDragging, lastMouseX, lastMouseY}
    cameraState,            \* {zoom, panX, panY, isPanning}
    resizingCorner,         \* ResizeCorner | null
    resizeStartState,       \* ResizeState | null
    rotationStartState,     \* RotationState | null
    transformingShapeIndex, \* number
    transformationType,     \* 'drag' | 'resize' | 'rotate' | null
    clipboard,              \* Shape | null
    history,                \* Shape[][], the newest historyKept entries
    historyLost,            \* older entries exist that the model dropped
    needsRedraw,            \* the "redraw already scheduled" flag
    scheduledFrames,        \* pending callbacks registered by scheduleDraw
    loadingLoops,           \* pending requestAnimationFrame(drawScene) callbacks
    isLoading,
    loadingAnimation,       \* the loading-screen loop has a callback pending
    hoverCheckTimeout,      \* null, or the pending hover check
    pointer,                \* where the pointer is: null when off the canvas
    transforms,             \* geometry-changing moves the behaviour may still make
    last,                   \* what the last handler did (observation only)
    hoverIn, hoverOut,      \* input and result of the resolver, SpecHover only
    geoIn, geoOut,          \* input and result of a geometry function, SpecGeometry only
    animShapes,             \* the animated shapes a playing page draws, SpecAnimation only
    now,                    \* performance.now() of the latest frame, SpecAnimation only
    isAutoPlaying,          \* SpecAnimation only
    lastFrame,              \* <<time, forceFinalState, drawn>> when the latest step
                            \* was a frame, <<>> otherwise; SpecAnimation only
    activeTextEditor,       \* index of the text shape being edited, or null
    imageShapes,            \* the page's image shapes: url, rectangle, image
    loadingImageUrls,       \* Set<string>: urls with a load in flight
    imageLoads,             \* the calls of loadImageForShape awaiting loadSkImage
    imageCache,             \* url -> what image.ts holds for it
    imageStale,             \* shapes whose decode failed and that were in view
                            \* under every camera since
    imageLog,               \* what the latest step did with the images
    currentPageIndex,       \* index of the page shown
    wasAnimating,           \* the frame before had a shape animating
    advanceTimers,          \* pending setTimeout callbacks of loadPage
    playLog,                \* what the latest step did to the page shown
    historyKept,            \* undo snapshots the model keeps in this behaviour
    readyState,             \* this.ws.readyState of CanvasKitWebSocket
    heartbeatIntervalId,    \* TRUE while the ping interval is set
    reconnectTimeoutId,     \* TRUE while the reconnect timer is set
    reconnectAttempts,
    manualClose,
    closeCalled,            \* close() has been called on the client
    listeners,              \* Set<Listener>
    pingsSent,              \* pings that went out on a socket
    wsLog,                  \* what the latest step of the client started
    remoteLoads,            \* shape_created shapes whose image is loading
    fitSearch               \* the font-size search under way, or Null

editorVars == <<shapes, selectedShape, hoverState, mouseState, cameraState,
                resizingCorner, resizeStartState, rotationStartState,
                transformingShapeIndex, transformationType, clipboard, history,
                historyLost, needsRedraw, scheduledFrames, loadingLoops, isLoading,
                loadingAnimation, hoverCheckTimeout, pointer, transforms, last>>
hoverVars == <<hoverIn, hoverOut>>
geoVars == <<geoIn, geoOut>>
animVars == <<animShapes, now, isAutoPlaying, lastFrame>>
\* what the editor's event handlers never touch
textVars == <<activeTextEditor>>
imageVars == <<imageShapes, loadingImageUrls, imageLoads, imageCache, imageStale,
               imageLog>>
playVars == <<currentPageIndex, wasAnimating, advanceTimers, playLog>>
\* fixed at the start of a behaviour
keptVars == <<historyKept>>
wsVars == <<readyState, heartbeatIntervalId, reconnectTimeoutId, reconnectAttempts,
            manualClose, closeCalled, listeners, pingsSent, wsLog>>
remoteVars == <<remoteLoads>>
fitVars == <<fitSearch>>
restVars == <<keptVars, wsVars, remoteVars, fitVars>>
pureExceptRemote == <<hoverVars, geoVars, animVars, textVars, imageVars, playVars,
                      keptVars, wsVars, fitVars>>
pureExceptFit == <<hoverVars, geoVars, animVars, textVars, imageVars, playVars, keptVars,
                   wsVars, remoteVars>>
pureExceptWs == <<hoverVars, geoVars, animVars, textVars, imageVars, playVars, keptVars,
                  remoteVars, fitVars>>
pureVars == <<hoverVars, geoVars, animVars, textVars, imageVars, playVars, restVars>>
vars == <<editorVars, hoverVars, geoVars, animVars, textVars, imageVars, playVars, restVars>>

\* ------------------------------------------------------------------------
\* Editor component helpers (Editor.svelte)
\* ------------------------------------------------------------------------
isValidIn(shapeList, index) ==
    index # INVALID_INDEX /\ index < Len(shapeList) /\ index >= 0

isValidShapeIndex(index) == isValidIn(shapes, index)

createSelectedShape == [index |-> INVALID_INDEX, rendered |-> FALSE]
Select(index) == [index |-> index, rendered |-> FALSE]

\* which sessions are open
DragOpen == mouseState.isDragging
ResizeOpen == resizingCorner # NO_CORNER
RotateOpen == ~IsNull(rotationStartState)
OpenSessions ==
    (IF DragOpen THEN {"drag"} ELSE {})
    \cup (IF ResizeOpen THEN {"resize"} ELSE {})
    \cup (IF RotateOpen THEN {"rotate"} ELSE {})

\* what a handler reports: the handler, the branch it took, whether it threw
Did(op, branch) == [op |-> op, branch |-> branch, threw |-> FALSE, draws |-> 0]
Threw(op, branch) == [op |-> op, branch |-> branch, threw |-> TRUE, draws |-> 0]

\* scheduleDraw: one callback per raised flag
scheduleDraw ==
    /\ needsRedraw' = TRUE
    /\ scheduledFrames' = IF needsRedraw THEN scheduledFrames ELSE scheduledFrames + 1
noDraw == UNCHANGED <<needsRedraw, scheduledFrames>>

\* JSON.parse(JSON.stringify(shape)): the plain fields survive the round trip
deepCopy(shape) ==
    [id |-> shape.id, kind |-> shape.kind, x |-> shape.x, y |-> shape.y,
     width |-> shape.width, height |-> shape.height, rotate |-> shape.rotate]

\* addToHistory, on the model's window of the newest historyKept snapshots
HistoryWindow == historyKept
\* history.push(shapesCopy) without the shift
historyPush_noLimit(h) == Append(h, [k \in 1..Len(shapes) |-> deepCopy(shapes[k])])
\* history.push(shapesCopy), then history.shift() beyond 30 entries
historyPush(h) ==
    LET all == Append(h, [k \in 1..Len(shapes) |-> deepCopy(shapes[k])])
    IN IF Len(all) > HISTORY_LIMIT THEN Tail(all) ELSE all
Pushed(h) ==
    LET all == historyPush(h)
    IN IF Len(all) <= HistoryWindow THEN all
       ELSE SubSeq(all, Len(all) - HistoryWindow + 1, Len(all))
addToHistory ==
    /\ history' = Pushed(history)
    /\ historyLost' = (historyLost \/ Len(history) >= HistoryWindow)
noHistory == UNCHANGED <<history, historyLost>>

\* The pending hover check holds the event and the shape array of the move
\* that armed it.  An entry of that array is the live shape at index ref, or,
\* once that object left the live list, the value it had then.
LiveRefs(shapeList) == [k \in 1..Len(shapeList) |-> [ref |-> k - 1, frozen |-> <<>>]]
Resolve(held) ==
    [k \in 1..Len(held) |->
        IF held[k].ref # INVALID_INDEX THEN shapes[held[k].ref + 1]
        ELSE held[k].frozen[1]]
\* every held entry leaves the live list
FreezeAll(t) ==
    IF IsNull(t) THEN t
    ELSE Some([Val(t) EXCEPT !.held =
            [k \in 1..Len(Val(t).held) |->
                [ref |-> INVALID_INDEX, frozen |-> <<Resolve(Val(t).held)[k]>>]]])
\* the live shape at index removed leaves the live list
FreezeOne(t, removed) ==
    IF IsNull(t) THEN t
    ELSE Some([Val(t) EXCEPT !.held =
            [k \in 1..Len(Val(t).held) |->
                LET e == Val(t).held[k]
                IN IF e.ref = removed
                   THEN [ref |-> INVALID_INDEX, frozen |-> <<shapes[removed + 1]>>]
                   ELSE IF e.ref > removed
                   THEN [e EXCEPT !.ref = e.ref - 1]
                   ELSE e]])

\* the state of the component once initializeEditor has finished: the first
\* page is loaded (loadPage has scheduled one draw) and the events are bound
InitEditorFor(zoom, images, moves, kept) ==
    /\ shapes = InitialScene
    /\ selectedShape = createSelectedShape
    /\ hoverState = createHoverState
    /\ mouseState = [isMouseDown |-> FALSE, isDragging |-> FALSE,
                     lastMouseX |-> 0, lastMouseY |-> 0]
    /\ cameraState = [zoom |-> zoom, panX |-> PanStart.x, panY |-> PanStart.y,
                      isPanning |-> FALSE]
    /\ resizingCorner = NO_CORNER
    /\ resizeStartState = Null
    /\ rotationStartState = Null
    /\ transformingShapeIndex = INVALID_INDEX
    /\ transformationType = "null"
    /\ clipboard = Null
    /\ history = <<>>
    /\ historyLost = FALSE
    /\ needsRedraw = TRUE
    /\ scheduledFrames = 1
    /\ loadingLoops = 0
    /\ isLoading = FALSE
    /\ loadingAnimation = TRUE
    /\ hoverCheckTimeout = Null
    /\ pointer = Null
    /\ transforms = moves
    /\ historyKept = kept
    /\ readyState = "CONNECTING"
    /\ heartbeatIntervalId = FALSE
    /\ reconnectTimeoutId = FALSE
    /\ reconnectAttempts = 0
    /\ manualClose = FALSE
    /\ closeCalled = FALSE
    /\ listeners = {}
    /\ pingsSent = 0
    /\ wsLog = "connect"
    /\ remoteLoads = <<>>
    /\ fitSearch = Null
    /\ last = Did("init", "none")
    /\ activeTextEditor = Null
    /\ imageShapes = images
    /\ loadingImageUrls = {}
    /\ imageLoads = {}
    /\ imageCache = [url \in {images[k].url : k \in 1..Len(images)} |-> "none"]
    /\ imageStale = {}
    /\ imageLog = [op |-> "none", started |-> {}, drawn |-> {}]
    /\ currentPageIndex = 0
    /\ wasAnimating = FALSE
    /\ advanceTimers = 0
    /\ playLog = "none"

\* MaxTransforms moves to make, MaxHistory snapshots kept
InitEditorOn(zoom, images) == InitEditorFor(zoom, images, MaxTransforms, MaxHistory)
\* a page without images
InitEditorWith(zoom) == InitEditorOn(zoom, <<>>)

InitEditor == InitEditorWith(InitialZoom)

\* ------------------------------------------------------------------------
\* Callbacks of createEventHandlerContext (Editor.svelte)
\* ------------------------------------------------------------------------
World(p) == screenToWorld(p.x, p.y, cameraState)

resetSelectedShape == selectedShape' = createSelectedShape
resetHoverState == hoverState' = createHoverState

\* the part the transform callbacks share: history on the first change of a
\* gesture, the live-transform state, the reassigned array
Transforming(shapeIndex, type, newShape) ==
    /\ transforms > 0
    /\ transforms' = transforms - 1
    /\ IF transformationType # type THEN addToHistory ELSE noHistory
    /\ shapes' = [shapes EXCEPT ![shapeIndex + 1] = newShape]
    /\ transformingShapeIndex' = shapeIndex
    /\ transformationType' = type

onShapeDrag(shapeIndex, deltaX, deltaY) ==
    LET draggedShape == shapes[shapeIndex + 1]
    IN Transforming(shapeIndex, "drag",
            [draggedShape EXCEPT !.x = @ + deltaX, !.y = @ + deltaY])

onShapeResize(shapeIndex, x, y, width, height) ==
    LET shape == shapes[shapeIndex + 1]
    IN Transforming(shapeIndex, "resize",
            [shape EXCEPT !.x = x, !.y = y, !.width = width, !.height = height])

onShapeRotate(shapeIndex, rotation) ==
    LET shape == shapes[shapeIndex + 1]
    IN Transforming(shapeIndex, "rotate", [shape EXCEPT !.rotate = rotation])

onPanning(deltaX, deltaY) ==
    /\ transforms > 0
    /\ transforms' = transforms - 1
    /\ cameraState' = [cameraState EXCEPT !.panX = @ + deltaX, !.panY = @ + deltaY]

onTransformEnd ==
    IF transformingShapeIndex # INVALID_INDEX
    THEN /\ transformingShapeIndex' = INVALID_INDEX
         /\ transformationType' = "null"
         /\ scheduleDraw
    ELSE /\ UNCHANGED <<transformingShapeIndex, transformationType>>
         /\ noDraw

clearSelection ==
    /\ resetSelectedShape
    /\ resetHoverState
    /\ resizingCorner' = NO_CORNER
    /\ resizeStartState' = Null
    /\ rotationStartState' = Null
    /\ scheduleDraw

\* ------------------------------------------------------------------------
\* lib/editor/event-handlers.ts: pointer move
\* ------------------------------------------------------------------------
MovedTo(p) == [mouseState EXCEPT !.lastMouseX = p.x, !.lastMouseY = p.y]

handlePanning(p) ==
    /\ onPanning(p.x - mouseState.lastMouseX, p.y - mouseState.lastMouseY)
    /\ mouseState' = MovedTo(p)
    /\ scheduleDraw
    /\ last' = Did("mousemove", "pan")
    /\ UNCHANGED <<shapes, selectedShape, hoverState, resizingCorner, resizeStartState,
                   rotationStartState, transformingShapeIndex, transformationType,
                   clipboard, history, historyLost, hoverCheckTimeout>>

\* the drag moving the shape by the delta in canvas pixels
handleShapeDragging_screenDelta(p) ==
    LET currentWorldPos == World(p)
        lastWorldPos == World(Pt(mouseState.lastMouseX, mouseState.lastMouseY))
        deltaX == p.x - mouseState.lastMouseX
        deltaY == p.y - mouseState.lastMouseY
        shapeIndexToDrag == IF isValidShapeIndex(hoverState.shapeIndex)
                            THEN hoverState.shapeIndex
                            ELSE selectedShape.index
    IN /\ mouseState' = MovedTo(p)
       /\ IF isValidShapeIndex(shapeIndexToDrag)
          THEN onShapeDrag(shapeIndexToDrag, deltaX, deltaY)
          ELSE UNCHANGED <<shapes, transformingShapeIndex, transformationType,
                           history, historyLost, transforms>>
       /\ scheduleDraw
       /\ last' = Did("mousemove", "drag")
       /\ UNCHANGED <<selectedShape, hoverState, cameraState, resizingCorner,
                      resizeStartState, rotationStartState, clipboard,
                      hoverCheckTimeout>>

handleShapeDragging(p) ==
    LET currentWorldPos == World(p)
        lastWorldPos == World(Pt(mouseState.lastMouseX, mouseState.lastMouseY))
        deltaX == currentWorldPos.x - lastWorldPos.x
        deltaY == currentWorldPos.y - lastWorldPos.y
        shapeIndexToDrag == IF isValidShapeIndex(hoverState.shapeIndex)
                            THEN hoverState.shapeIndex
                            ELSE selectedShape.index
    IN /\ mouseState' = MovedTo(p)
       /\ IF isValidShapeIndex(shapeIndexToDrag)
          THEN onShapeDrag(shapeIndexToDrag, deltaX, deltaY)
          ELSE UNCHANGED <<shapes, transformingShapeIndex, transformationType,
                           history, historyLost, transforms>>
       /\ scheduleDraw
       /\ last' = Did("mousemove", "drag")
       /\ UNCHANGED <<selectedShape, hoverState, cameraState, resizingCorner,
                      resizeStartState, rotationStartState, clipboard,
                      hoverCheckTimeout>>

handleShapeRotation(p) ==
    IF IsNull(rotationStartState) \/ ~isValidShapeIndex(selectedShape.index)
    THEN /\ rotationStartState' = IF ~isValidShapeIndex(selectedShape.index)
                                  THEN Null ELSE rotationStartState
         /\ last' = Did("mousemove", "rotate")
         /\ noDraw
         /\ UNCHANGED <<shapes, selectedShape, hoverState, mouseState, cameraState,
                        resizingCorner, resizeStartState, transformingShapeIndex,
                        transformationType, clipboard, history, historyLost,
                        hoverCheckTimeout, transforms>>
    ELSE LET shape == shapes[selectedShape.index + 1]
             shapeCenter == getShapeCenter2(shape)
         IN /\ RepresentableRotation(Val(rotationStartState), World(p), shapeCenter)
            /\ mouseState' = MovedTo(p)
            /\ onShapeRotate(selectedShape.index,
                    calculateRotation(Val(rotationStartState), World(p), shapeCenter))
            /\ scheduleDraw
            /\ last' = Did("mousemove", "rotate")
            /\ UNCHANGED <<selectedShape, hoverState, cameraState, resizingCorner,
                           resizeStartState, rotationStartState, clipboard,
                           hoverCheckTimeout>>

handleShapeResizing(p) ==
    IF IsNull(resizeStartState) \/ resizingCorner = NO_CORNER
       \/ ~isValidShapeIndex(selectedShape.index)
    THEN /\ last' = Did("mousemove", "resize")
         /\ noDraw
         /\ UNCHANGED <<shapes, selectedShape, hoverState, mouseState, cameraState,
                        resizingCorner, resizeStartState, rotationStartState,
                        transformingShapeIndex, transformationType, clipboard,
                        history, historyLost, hoverCheckTimeout, transforms>>
    ELSE LET shape == shapes[selectedShape.index + 1]
             rotation == shape.rotate
             r == calculateResize(Val(resizeStartState), resizingCorner, World(p), rotation)
         IN /\ RepresentableResize(Val(resizeStartState), resizingCorner, World(p), rotation)
            /\ mouseState' = MovedTo(p)
            /\ onShapeResize(selectedShape.index, r.x, r.y, r.width, r.height)
            /\ scheduleDraw
            /\ last' = Did("mousemove", "resize")
            /\ UNCHANGED <<selectedShape, hoverState, cameraState, resizingCorner,
                           resizeStartState, rotationStartState, clipboard,
                           hoverCheckTimeout>>

\* arms the hover check unless one is pending; the check itself is HoverCheck
handleHoverDetection(p) ==
    /\ hoverCheckTimeout' = IF ~IsNull(hoverCheckTimeout) THEN hoverCheckTimeout
                            ELSE Some([pos |-> p, held |-> LiveRefs(shapes)])
    /\ last' = Did("mousemove", "hover")
    /\ noDraw
    /\ UNCHANGED <<shapes, selectedShape, hoverState, mouseState, cameraState,
                   resizingCorner, resizeStartState, rotationStartState,
                   transformingShapeIndex, transformationType, clipboard,
                   history, historyLost, transforms>>

\* the dispatcher with the drag test moved ahead of the rotate and resize tests
handleMouseMove_dragFirst(p) ==
    /\ pointer' = Some(p)
    /\ UNCHANGED <<loadingLoops, isLoading, loadingAnimation>>
    /\ IF cameraState.isPanning /\ mouseState.isMouseDown
       THEN handlePanning(p)
       ELSE IF mouseState.isDragging
               /\ (isValidShapeIndex(hoverState.shapeIndex)
                   \/ isValidShapeIndex(selectedShape.index))
       THEN handleShapeDragging(p)
       ELSE IF ~IsNull(rotationStartState) /\ mouseState.isMouseDown
       THEN handleShapeRotation(p)
       ELSE IF resizingCorner # NO_CORNER /\ mouseState.isMouseDown
       THEN handleShapeResizing(p)
       ELSE handleHoverDetection(p)

handleMouseMove(p) ==
    /\ pointer' = Some(p)
    /\ UNCHANGED <<loadingLoops, isLoading, loadingAnimation>>
    /\ IF cameraState.isPanning /\ mouseState.isMouseDown
       THEN handlePanning(p)
       ELSE IF ~IsNull(rotationStartState) /\ mouseState.isMouseDown
       THEN handleShapeRotation(p)
       ELSE IF resizingCorner # NO_CORNER /\ mouseState.isMouseDown
       THEN handleShapeResizing(p)
       ELSE IF mouseState.isDragging
               /\ (isValidShapeIndex(hoverState.shapeIndex)
                   \/ isValidShapeIndex(selectedShape.index))
       THEN handleShapeDragging(p)
       ELSE handleHoverDetection(p)

\* the callback of the hover timer: it resolves the position of the move that
\* armed it, in the shape array that move saw, against the live camera,
\* selection and validity test
HoverCheck ==
    /\ ~IsNull(hoverCheckTimeout)
    /\ hoverCheckTimeout' = Null
    /\ LET t == Val(hoverCheckTimeout)
           heldShapes == Resolve(t.held)
           selectedValid == isValidShapeIndex(selectedShape.index)
       IN IF detectHoverThrows(heldShapes, selectedShape.index, selectedValid)
          THEN /\ last' = Threw("hovercheck", "none")
               /\ noDraw
               /\ UNCHANGED hoverState
          ELSE LET newHoverState == detectHover(World(t.pos), heldShapes,
                                        selectedShape.index, cameraState.zoom,
                                        selectedValid)
               IN /\ hoverState' = updateHoverState(hoverState, newHoverState)
                  /\ IF hoverNeedsUpdate(hoverState, newHoverState)
                     THEN scheduleDraw ELSE noDraw
                  /\ last' = Did("hovercheck", "none")
    /\ UNCHANGED <<shapes, selectedShape, mouseState, cameraState, resizingCorner,
                   resizeStartState, rotationStartState, transformingShapeIndex,
                   transformationType, clipboard, history, historyLost, loadingLoops,
                   isLoading, loadingAnimation, pointer, transforms>>

\* ------------------------------------------------------------------------
\* lib/editor/event-handlers.ts: pointer down, up, leave
\* ------------------------------------------------------------------------
Pressed(p) == [mouseState EXCEPT !.isMouseDown = TRUE,
                                 !.lastMouseX = p.x, !.lastMouseY = p.y]

\* the shapes of the model are images: onShapeDoubleClick returns at once
handleMouseDown ==
    /\ ~IsNull(pointer)
    /\ UNCHANGED <<shapes, cameraState, transformingShapeIndex, transformationType,
                   clipboard, history, historyLost, loadingLoops, isLoading,
                   loadingAnimation, hoverCheckTimeout, pointer, transforms>>
    /\ LET p == Val(pointer)
           worldPos == World(p)
           clickedShapeIndex == findShapeAtPoint(worldPos, shapes)
       IN IF cameraState.isPanning
          THEN /\ mouseState' = Pressed(p)
               /\ last' = Did("mousedown", "pan")
               /\ noDraw
               /\ UNCHANGED <<selectedShape, hoverState, resizingCorner,
                              resizeStartState, rotationStartState>>
          ELSE IF hoverState.isHoveringRotateCircle
                  /\ isValidShapeIndex(selectedShape.index)
          THEN /\ rotationStartState' =
                      Some(initializeRotation(shapes[selectedShape.index + 1], worldPos))
               /\ mouseState' = Pressed(p)
               /\ last' = Did("mousedown", "rotate")
               /\ noDraw
               /\ UNCHANGED <<selectedShape, hoverState, resizingCorner, resizeStartState>>
          ELSE IF hoverState.resizeCorner # NO_CORNER
                  /\ isValidShapeIndex(selectedShape.index)
          THEN /\ resizingCorner' = hoverState.resizeCorner
               /\ resizeStartState' =
                      Some(initializeResize(shapes[selectedShape.index + 1], worldPos))
               /\ mouseState' = Pressed(p)
               /\ last' = Did("mousedown", "resize")
               /\ noDraw
               /\ UNCHANGED <<selectedShape, hoverState, rotationStartState>>
          ELSE IF isValidShapeIndex(clickedShapeIndex)
          THEN /\ mouseState' = [Pressed(p) EXCEPT !.isDragging = TRUE]
               /\ hoverState' = IF selectedShape.index # INVALID_INDEX
                                   /\ selectedShape.index # clickedShapeIndex
                                THEN createHoverState ELSE hoverState
               /\ selectedShape' = Select(clickedShapeIndex)
               /\ scheduleDraw
               /\ last' = Did("mousedown", "drag")
               /\ UNCHANGED <<resizingCorner, resizeStartState, rotationStartState>>
          ELSE /\ clearSelection
               /\ last' = Did("mousedown", "clear")
               /\ UNCHANGED mouseState

\* the snapshot taken at entry decides whether onTransformEnd runs
handleMouseUp ==
    /\ rotationStartState' = Null
    /\ IF mouseState.isMouseDown
       THEN /\ mouseState' = [mouseState EXCEPT !.isMouseDown = FALSE,
                                                !.isDragging = FALSE]
            /\ IF mouseState.isDragging \/ resizingCorner # NO_CORNER
                  \/ ~IsNull(rotationStartState)
               THEN onTransformEnd
               ELSE /\ UNCHANGED <<transformingShapeIndex, transformationType>>
                    /\ noDraw
            /\ resizingCorner' = NO_CORNER
            /\ resizeStartState' = Null
       ELSE /\ noDraw
            /\ UNCHANGED <<mouseState, transformingShapeIndex, transformationType,
                           resizingCorner, resizeStartState>>
    /\ last' = Did("mouseup", "none")
    /\ UNCHANGED <<shapes, selectedShape, hoverState, cameraState, clipboard, history,
                   historyLost, loadingLoops, isLoading, loadingAnimation,
                   hoverCheckTimeout, pointer, transforms>>

\* the leave handler with the rotation session left as it is
handleMouseLeave_keepRotation ==
    /\ ~IsNull(pointer)
    /\ pointer' = Null
    /\ IF mouseState.isMouseDown
       THEN /\ mouseState' = [mouseState EXCEPT !.isMouseDown = FALSE,
                                                !.isDragging = FALSE]
            /\ resizingCorner' = NO_CORNER
            /\ resizeStartState' = Null
       ELSE UNCHANGED <<mouseState, resizingCorner, resizeStartState>>
    /\ UNCHANGED rotationStartState
    /\ hoverCheckTimeout' = Null
    /\ resetHoverState
    /\ scheduleDraw
    /\ last' = Did("mouseleave", "none")
    /\ UNCHANGED <<shapes, selectedShape, cameraState, transformingShapeIndex,
                   transformationType, clipboard, history, historyLost, loadingLoops,
                   isLoading, loadingAnimation, transforms>>

handleMouseLeave ==
    /\ ~IsNull(pointer)
    /\ pointer' = Null
    /\ IF mouseState.isMouseDown
       THEN /\ mouseState' = [mouseState EXCEPT !.isMouseDown = FALSE,
                                                !.isDragging = FALSE]
            /\ resizingCorner' = NO_CORNER
            /\ resizeStartState' = Null
            /\ rotationStartState' = Null
       ELSE UNCHANGED <<mouseState, resizingCorner, resizeStartState, rotationStartState>>
    /\ hoverCheckTimeout' = Null
    /\ resetHoverState
    /\ scheduleDraw
    /\ last' = Did("mouseleave", "none")
    /\ UNCHANGED <<shapes, selectedShape, cameraState, transformingShapeIndex,
                   transformationType, clipboard, history, historyLost, loadingLoops,
                   isLoading, loadingAnimation, transforms>>

\* ------------------------------------------------------------------------
\* lib/editor/event-handlers.ts: keys, with the callbacks they reach
\* ------------------------------------------------------------------------
RemoveAt(shapeList, index) ==
    [k \in 1..(Len(shapeList) - 1) |->
        IF k - 1 < index THEN shapeList[k] ELSE shapeList[k + 1]]

onDelete ==
    IF selectedShape.index # INVALID_INDEX
    THEN /\ addToHistory
         /\ shapes' = IF isValidShapeIndex(selectedShape.index)
                      THEN RemoveAt(shapes, selectedShape.index) ELSE shapes
         /\ hoverCheckTimeout' = IF isValidShapeIndex(selectedShape.index)
                                 THEN FreezeOne(hoverCheckTimeout, selectedShape.index)
                                 ELSE hoverCheckTimeout
         /\ resetSelectedShape
         /\ resetHoverState
         /\ scheduleDraw
         /\ last' = Did("delete", "removed")
    ELSE /\ last' = Did("delete", "none")
         /\ noDraw
         /\ noHistory
         /\ UNCHANGED <<shapes, hoverCheckTimeout, selectedShape, hoverState>>

onUndo ==
    IF Len(history) > 0
    THEN /\ shapes' = history[Len(history)]
         /\ history' = SubSeq(history, 1, Len(history) - 1)
         /\ hoverCheckTimeout' = FreezeAll(hoverCheckTimeout)
         /\ resetSelectedShape
         /\ resetHoverState
         /\ scheduleDraw
         /\ last' = Did("undo", "restored")
         /\ UNCHANGED historyLost
    ELSE /\ ~historyLost
         /\ last' = Did("undo", "none")
         /\ noDraw
         /\ noHistory
         /\ UNCHANGED <<shapes, hoverCheckTimeout, selectedShape, hoverState>>

\* JSON.stringify(undefined) is undefined and JSON.parse(undefined) throws
onCopy ==
    IF selectedShape.index # INVALID_INDEX
    THEN IF selectedShape.index >= Len(shapes)
         THEN /\ last' = Threw("copy", "none")
              /\ UNCHANGED clipboard
         ELSE /\ clipboard' = Some(deepCopy(shapes[selectedShape.index + 1]))
              /\ last' = Did("copy", "copied")
    ELSE /\ last' = Did("copy", "none")
         /\ UNCHANGED clipboard

\* the pasted shape gets an id no shape of the page has
FreshId(shapeList) ==
    1 + Max(2, IF shapeList = <<>> THEN 0
               ELSE CHOOSE m \in {shapeList[k].id : k \in 1..Len(shapeList)} :
                        \A k \in 1..Len(shapeList) : shapeList[k].id <= m)

onPaste ==
    IF ~IsNull(clipboard)
    THEN /\ Len(shapes) < MaxShapes
         /\ addToHistory
         /\ shapes' = Append(shapes, [deepCopy(Val(clipboard)) EXCEPT
                                         !.id = FreshId(shapes),
                                         !.x = @ + 20, !.y = @ + 20])
         /\ selectedShape' = Select(Len(shapes))
         /\ scheduleDraw
         /\ last' = Did("paste", "pasted")
    ELSE /\ last' = Did("paste", "none")
         /\ noDraw
         /\ noHistory
         /\ UNCHANGED <<shapes, selectedShape>>

KeyFrame == UNCHANGED <<mouseState, transformingShapeIndex, transformationType,
                        loadingLoops, isLoading, loadingAnimation, pointer, transforms>>

KeyDelete ==
    /\ onDelete
    /\ KeyFrame
    /\ UNCHANGED <<cameraState, resizingCorner, resizeStartState, rotationStartState,
                   clipboard>>

KeyUndo ==
    /\ onUndo
    /\ KeyFrame
    /\ UNCHANGED <<cameraState, resizingCorner, resizeStartState, rotationStartState,
                   clipboard>>

KeyCopy ==
    /\ onCopy
    /\ KeyFrame
    /\ noDraw
    /\ noHistory
    /\ UNCHANGED <<shapes, selectedShape, hoverState, cameraState, resizingCorner,
                   resizeStartState, rotationStartState, hoverCheckTimeout>>

KeyPaste ==
    /\ onPaste
    /\ KeyFrame
    /\ UNCHANGED <<hoverState, cameraState, resizingCorner, resizeStartState,
                   rotationStartState, clipboard, hoverCheckTimeout>>

KeySpaceDown ==
    /\ cameraState' = [cameraState EXCEPT !.isPanning = TRUE]
    /\ last' = Did("keydown", "space")
    /\ KeyFrame
    /\ noDraw
    /\ noHistory
    /\ UNCHANGED <<shapes, selectedShape, hoverState, resizingCorner, resizeStartState,
                   rotationStartState, clipboard, hoverCheckTimeout>>

KeyEscape ==
    /\ clearSelection
    /\ last' = Did("keydown", "escape")
    /\ KeyFrame
    /\ noHistory
    /\ UNCHANGED <<shapes, cameraState, clipboard, hoverCheckTimeout>>

handleKeyUp ==
    /\ cameraState' = [cameraState EXCEPT !.isPanning = FALSE]
    /\ last' = Did("keyup", "space")
    /\ KeyFrame
    /\ noDraw
    /\ noHistory
    /\ UNCHANGED <<shapes, selectedShape, hoverState, resizingCorner, resizeStartState,
                   rotationStartState, clipboard, hoverCheckTimeout>>

\* ------------------------------------------------------------------------
\* Text editing and the keys it takes over (SpecKeys)
\* ------------------------------------------------------------------------
TextShape(id, x, y, width, height) ==
    [id |-> id, kind |-> "text", x |-> x, y |-> y,
     width |-> width, height |-> height, rotate |-> ROTATE_NULL]
isTextEditing == activeTextEditor # Null
\* activeTextEditor.stop() ends in onStop
stopTextEditing == activeTextEditor' = Null

\* a press that opens no transform session, with what it does to the text
\* editor: selecting or clearing stops it
handleMouseDownEditing ==
    /\ handleMouseDown
    /\ IF last'.branch \in {"drag", "clear"} THEN stopTextEditing
       ELSE UNCHANGED activeTextEditor

\* the second press of a double click on a text shape: the press selects
\* the shape, onShapeDoubleClick snapshots the shapes and opens the editor
handleDoubleClick ==
    /\ ~IsNull(pointer)
    /\ LET p == Val(pointer)
           clickedShapeIndex == findShapeAtPoint(World(p), shapes)
       IN /\ ~cameraState.isPanning
          /\ ~(hoverState.isHoveringRotateCircle /\ isValidShapeIndex(selectedShape.index))
          /\ ~(hoverState.resizeCorner # NO_CORNER /\ isValidShapeIndex(selectedShape.index))
          /\ isValidShapeIndex(clickedShapeIndex)
          /\ shapes[clickedShapeIndex + 1].kind = "text"
          /\ mouseState' = [Pressed(p) EXCEPT !.isDragging = TRUE]
          /\ hoverState' = IF selectedShape.index # INVALID_INDEX
                              /\ selectedShape.index # clickedShapeIndex
                           THEN createHoverState ELSE hoverState
          /\ selectedShape' = Select(clickedShapeIndex)
          /\ addToHistory
          /\ scheduleDraw
          /\ activeTextEditor' = Some(clickedShapeIndex)
          /\ last' = Did("mousedown", "dblclick")
    /\ UNCHANGED <<shapes, cameraState, resizingCorner, resizeStartState,
                   rotationStartState, transformingShapeIndex, transformationType,
                   clipboard, loadingLoops, isLoading, loadingAnimation,
                   hoverCheckTimeout, pointer, transforms>>

KeyIgnored(key, why) ==
    /\ last' = Did(key, why)
    /\ KeyFrame
    /\ noDraw
    /\ noHistory
    /\ UNCHANGED <<shapes, selectedShape, hoverState, cameraState, resizingCorner,
                   resizeStartState, rotationStartState, clipboard, hoverCheckTimeout,
                   activeTextEditor>>

\* the Delete key deleting also under a text edit
handleKeyDownDelete_always(inField) ==
    IF inField THEN KeyIgnored("delete", "field")
    ELSE KeyDelete /\ UNCHANGED activeTextEditor

\* handleKeyDown for Delete or Backspace; inField: the event's target is an
\* input or a textarea
handleKeyDownDelete(inField) ==
    IF inField THEN KeyIgnored("delete", "field")
    ELSE IF isTextEditing THEN KeyIgnored("delete", "editing")
    ELSE KeyDelete /\ UNCHANGED activeTextEditor

\* handleKeyDown for Escape
handleKeyDownEscape ==
    IF isTextEditing
    THEN /\ stopTextEditing
         /\ scheduleDraw
         /\ last' = Did("keydown", "stopEditing")
         /\ KeyFrame
         /\ noHistory
         /\ UNCHANGED <<shapes, selectedShape, hoverState, cameraState, resizingCorner,
                        resizeStartState, rotationStartState, clipboard,
                        hoverCheckTimeout>>
    ELSE KeyEscape /\ UNCHANGED activeTextEditor

\* the page the keys work on: an image and a text
KeyScene == <<ShapeA, TextShape(2, -30, 0, 40, 40)>>
KeyPoints == {<<60, 100>>,    \* on the image
              <<100, 110>>,   \* on the text
              <<150, 100>>}   \* on the empty canvas

\* ------------------------------------------------------------------------
\* Editor.svelte: documents, remote sync, frames
\* ------------------------------------------------------------------------
loadDocument ==
    /\ isLoading' = TRUE
    /\ loadingAnimation' = TRUE
    /\ last' = Did("loadDocument", "none")
    /\ noDraw
    /\ noHistory
    /\ UNCHANGED <<shapes, selectedShape, hoverState, mouseState, cameraState,
                   resizingCorner, resizeStartState, rotationStartState,
                   transformingShapeIndex, transformationType, clipboard, loadingLoops,
                   hoverCheckTimeout, pointer, transforms>>

loadPage(scene) ==
    /\ shapes' = scene
    /\ cameraState' = [cameraState EXCEPT !.panX = PanStart.x, !.panY = PanStart.y]
    /\ resetSelectedShape
    /\ resetHoverState
    /\ scheduleDraw

\* 'document_loaded_binary' answering loadDocument: loadPage(0), then the
\* loading flag drops before any frame runs
DocumentLoaded(scene) ==
    /\ isLoading
    /\ loadPage(scene)
    /\ isLoading' = FALSE
    /\ hoverCheckTimeout' = FreezeAll(hoverCheckTimeout)
    /\ last' = Did("documentLoaded", "none")
    /\ noHistory
    /\ UNCHANGED <<mouseState, resizingCorner, resizeStartState, rotationStartState,
                   transformingShapeIndex, transformationType, clipboard, loadingLoops,
                   loadingAnimation, pointer, transforms>>

\* 'page_state_synced': the page's shapes are replaced by the synced list
PageStateSynced(scene) ==
    /\ shapes' = scene
    /\ hoverCheckTimeout' = FreezeAll(hoverCheckTimeout)
    /\ scheduleDraw
    /\ last' = Did("pageStateSynced", "none")
    /\ noHistory
    /\ UNCHANGED <<selectedShape, hoverState, mouseState, cameraState, resizingCorner,
                   resizeStartState, rotationStartState, transformingShapeIndex,
                   transformationType, clipboard, loadingLoops, isLoading,
                   loadingAnimation, pointer, transforms>>

validateSelectedShape ==
    IF selectedShape.index # INVALID_INDEX /\ selectedShape.index >= Len(shapes)
    THEN resetSelectedShape /\ resetHoverState
    ELSE UNCHANGED <<selectedShape, hoverState>>

\* One animation frame: every pending callback runs.  A callback of
\* scheduleDraw clears needsRedraw and calls drawScene, a callback registered
\* by drawScene itself calls drawScene.  While loading, each drawScene
\* registers itself again; otherwise each draws the scene, and a scene with a
\* running shape animation requests a further draw.
Frame(animating) ==
    LET callbacks == scheduledFrames + loadingLoops
    IN /\ callbacks > 0 \/ loadingAnimation
       /\ callbacks <= MaxCallbacks
       /\ loadingAnimation' = (loadingAnimation /\ isLoading)
       /\ IF isLoading
          THEN /\ ~animating
               /\ loadingLoops' = callbacks
               /\ scheduledFrames' = 0
               /\ needsRedraw' = IF scheduledFrames > 0 THEN FALSE ELSE needsRedraw
               /\ last' = Did("frame", "loading")
               /\ UNCHANGED <<selectedShape, hoverState>>
          ELSE /\ loadingLoops' = 0
               /\ IF callbacks > 0
                  THEN /\ validateSelectedShape
                       /\ scheduledFrames' = IF animating THEN 1 ELSE 0
                       /\ needsRedraw' = animating
                  ELSE /\ ~animating
                       /\ UNCHANGED <<selectedShape, hoverState, scheduledFrames,
                                      needsRedraw>>
               /\ last' = [Did("frame", "scene") EXCEPT !.draws = callbacks]
       /\ noHistory
       /\ UNCHANGED <<shapes, mouseState, cameraState, resizingCorner, resizeStartState,
                      rotationStartState, transformingShapeIndex, transformationType,
                      clipboard, isLoading, hoverCheckTimeout, pointer, transforms>>

\* ------------------------------------------------------------------------
\* The hover resolver on its own (SpecHover): one selected shape, every point
\* of a grid around its top edge, at several zooms
\* ------------------------------------------------------------------------
HoverWidths == {20, 40}
HoverZooms == {<<1, 1>>, <<2, 1>>, <<1, 2>>}
HoverRotations == {ROTATE_NULL, 0, 90}
\* the grid reaches this many steps of two world units each way
GridHalf == 12
HoverGrid == -GridHalf..GridHalf
HoverShape(w, r) == [id |-> 1, kind |-> "image", x |-> 0, y |-> 0,
                     width |-> w, height |-> 20, rotate |-> r]

\* the input of the resolver: the point, the selected shape's width and
\* rotation, the zoom
\* <<asked, point x, point y, width, rotation, zoom numerator, zoom denominator>>
NoHoverInput == <<FALSE, 0, 0, 20, ROTATE_NULL, 1, 1>>
Asked(in) == in[1]
InPoint(in) == Pt(in[2], in[3])
InRotation(in) == in[5]
InShape(in) == HoverShape(in[4], in[5])
InZoom(in) == [num |-> in[6], den |-> in[7]]

\* the editor does not run the resolver on its own: outside SpecHover the
\* input stays the unasked one
InitHover ==
    /\ hoverIn = NoHoverInput
    /\ hoverOut = createHoverState

\* every input of the bounded grid, not yet resolved
InitHoverInputs ==
    /\ hoverIn \in {<<FALSE, 2 * i, 2 * j, w, r, z[1], z[2]>> :
                        i \in HoverGrid, j \in HoverGrid, w \in HoverWidths,
                        r \in HoverRotations, z \in HoverZooms}
    /\ hoverOut = createHoverState

\* detectHover applied to the input, the shape being the selected shape 0
ResolveHover ==
    /\ ~Asked(hoverIn)
    /\ hoverIn' = [hoverIn EXCEPT ![1] = TRUE]
    /\ hoverOut' = detectHover(InPoint(hoverIn), <<InShape(hoverIn)>>, 0, InZoom(hoverIn),
                                isValidIn(<<InShape(hoverIn)>>, 0))
    /\ UNCHANGED <<editorVars, geoVars, animVars, textVars, imageVars, playVars, restVars>>

NextHover == ResolveHover

\* ------------------------------------------------------------------------
\* The camera: initial zoom and wheel zoom (SpecCamera).  A zoom is the
\* fraction [num, den] in lowest terms.
\* ------------------------------------------------------------------------
RECURSIVE Gcd(_, _)
Gcd(a, b) == IF b = 0 THEN a ELSE Gcd(b, a % b)
Frac(n, d) == [num |-> n \div Gcd(n, d), den |-> d \div Gcd(n, d)]
FracLess(a, b) == a.num * b.den < b.num * a.den
FracMin(a, b) == IF FracLess(b, a) THEN b ELSE a
FracMax(a, b) == IF FracLess(a, b) THEN b ELSE a
FracTimes(a, b) == Frac(a.num * b.num, a.den * b.den)

DEFAULT_CAMERA_ZOOM == [num |-> 1, den |-> 2]
MIN_CAMERA_ZOOM == [num |-> 1, den |-> 5]
MAX_CAMERA_ZOOM == [num |-> 10, den |-> 1]
ZOOM_IN_FACTOR == [num |-> 11, den |-> 10]
ZOOM_OUT_FACTOR == [num |-> 9, den |-> 10]
INITIAL_PAGE_VIEW_RATIO == [num |-> 7, den |-> 10]

\* the editor element is 2 * PanStart wide and high
canvasWidth == 2 * PanStart.x
canvasHeight == 2 * PanStart.y

\* a page is <<width, height>>, the absent page is <<>>; a scale over a zero
\* page dimension is Infinity, here a fraction with denominator 0
calculateInitialZoom(page) ==
    IF page = <<>> \/ canvasWidth = 0 \/ canvasHeight = 0 THEN DEFAULT_CAMERA_ZOOM
    ELSE LET wn == canvasWidth * INITIAL_PAGE_VIEW_RATIO.num
             wd == page[1] * INITIAL_PAGE_VIEW_RATIO.den
             hn == canvasHeight * INITIAL_PAGE_VIEW_RATIO.num
             hd == page[2] * INITIAL_PAGE_VIEW_RATIO.den
             \* Math.min of the two scales
             widthSmaller == wn * hd < hn * wd
             fitNum == IF widthSmaller THEN wn ELSE hn
             fitDen == IF widthSmaller THEN wd ELSE hd
         IN IF fitDen = 0 \/ fitNum <= 0 THEN DEFAULT_CAMERA_ZOOM
            ELSE FracMax(MIN_CAMERA_ZOOM, FracMin(MAX_CAMERA_ZOOM, Frac(fitNum, fitDen)))

\* wheel steps are taken while the zoom's denominator is at most this
MaxZoomDen == 10

\* Math.max(MIN, Math.min(MAX, zoom * factor))
WheelZoom(zoomOut) ==
    FracMax(MIN_CAMERA_ZOOM,
            FracMin(MAX_CAMERA_ZOOM,
                    FracTimes(cameraState.zoom,
                              IF zoomOut THEN ZOOM_OUT_FACTOR ELSE ZOOM_IN_FACTOR)))
\* mouse - (mouse - pan) * (newZoom / zoom)
WheelPan(mouse, pan, newZoom) ==
    mouse - Quot((mouse - pan) * newZoom.num * cameraState.zoom.den,
                 newZoom.den * cameraState.zoom.num)
RepresentableWheel(p, newZoom) ==
    /\ IsExact((p.x - cameraState.panX) * newZoom.num * cameraState.zoom.den,
               newZoom.den * cameraState.zoom.num)
    /\ IsExact((p.y - cameraState.panY) * newZoom.num * cameraState.zoom.den,
               newZoom.den * cameraState.zoom.num)

\* the wheel handler clamping to the maximum only
handleWheel_noMinimum(zoomOut) ==
    LET p == Val(pointer)
        newZoom == FracMin(MAX_CAMERA_ZOOM,
                           FracTimes(cameraState.zoom,
                                     IF zoomOut THEN ZOOM_OUT_FACTOR ELSE ZOOM_IN_FACTOR))
    IN /\ ~IsNull(pointer)
       /\ cameraState.zoom.den <= MaxZoomDen
       /\ RepresentableWheel(p, newZoom)
       /\ cameraState' = [cameraState EXCEPT !.zoom = newZoom,
                                             !.panX = WheelPan(p.x, @, newZoom),
                                             !.panY = WheelPan(p.y, @, newZoom)]
       /\ scheduleDraw
       /\ last' = Did("wheel", IF zoomOut THEN "out" ELSE "in")
       /\ noHistory
       /\ UNCHANGED <<shapes, selectedShape, hoverState, mouseState, resizingCorner,
                      resizeStartState, rotationStartState, transformingShapeIndex,
                      transformationType, clipboard, loadingLoops, isLoading,
                      loadingAnimation, hoverCheckTimeout, pointer, transforms>>

\* a wheel event where the pointer is; zoomOut is event.deltaY > 0
handleWheel(zoomOut) ==
    LET p == Val(pointer)
        newZoom == WheelZoom(zoomOut)
    IN /\ ~IsNull(pointer)
       /\ cameraState.zoom.den <= MaxZoomDen
       /\ RepresentableWheel(p, newZoom)
       /\ cameraState' = [cameraState EXCEPT !.zoom = newZoom,
                                             !.panX = WheelPan(p.x, @, newZoom),
                                             !.panY = WheelPan(p.y, @, newZoom)]
       /\ scheduleDraw
       /\ last' = Did("wheel", IF zoomOut THEN "out" ELSE "in")
       /\ noHistory
       /\ UNCHANGED <<shapes, selectedShape, hoverState, mouseState, resizingCorner,
                      resizeStartState, rotationStartState, transformingShapeIndex,
                      transformationType, clipboard, loadingLoops, isLoading,
                      loadingAnimation, hoverCheckTimeout, pointer, transforms>>

\* the pages the first document may open with
PageSizes == {<<140, 140>>, <<70, 70>>, <<280, 280>>, <<14, 14>>, <<10, 10>>,
              <<700, 700>>, <<1400, 1400>>, <<0, 0>>, <<0, 140>>, <<140, 70>>}
CameraPoints == {<<60, 100>>, <<80, 100>>}
\* the page a document load brings in
CameraScene == "AB"
\* the pointer position and the last one map to whole world units
ExactAt(p) ==
    /\ RepresentableWorld(p.x, p.y, cameraState)
    /\ RepresentableWorld(mouseState.lastMouseX, mouseState.lastMouseY, cameraState)

\* ------------------------------------------------------------------------
\* The geometry functions on their own (SpecGeometry): one function applied
\* once to an input drawn at the start
\* ------------------------------------------------------------------------
\* outside SpecGeometry no function is asked
NoGeoInput == <<"none", TRUE>>
InitGeo ==
    /\ geoIn = NoGeoInput
    /\ geoOut = <<>>

\* <<function, asked, arguments ...>>
GeoFn(in) == in[1]
GeoAsked(in) == in[2]
GeoDone(fn) == GeoFn(geoIn) = fn /\ GeoAsked(geoIn)
GeoAsk(fn) ==
    /\ GeoFn(geoIn) = fn
    /\ ~GeoAsked(geoIn)
    /\ geoIn' = [geoIn EXCEPT ![2] = TRUE]
    /\ UNCHANGED <<editorVars, hoverVars, animVars, textVars, imageVars, playVars, restVars>>

\* overlapping shapes in several draw orders
GeoShape(id, x, y) == ImageShape(id, x, y, 40, 40)
GeoScenes == {"two", "swapped", "three", "empty"}
GeoSceneOf(name) ==
    CASE name = "two" -> <<GeoShape(1, 0, 0), GeoShape(2, 20, 20)>>
      [] name = "swapped" -> <<GeoShape(2, 20, 20), GeoShape(1, 0, 0)>>
      [] name = "three" -> <<GeoShape(1, 0, 0), GeoShape(2, 20, 20), GeoShape(3, 20, 0)>>
      [] name = "empty" -> <<>>
\* world points every ten units, from -10 to 10 * HitGridMax - 10
HitGridMax == 8
HitGrid == {10 * i - 10 : i \in 0..HitGridMax}
GeoSelections == {INVALID_INDEX, 0, 1}

\* <<"hit", asked, x, y, scene>>
HitInputs == {<<"hit", FALSE, x, y, sc>> : x \in HitGrid, y \in HitGrid, sc \in GeoScenes}
HitTest ==
    /\ GeoAsk("hit")
    /\ geoOut' = findShapeAtPoint(Pt(geoIn[3], geoIn[4]), GeoSceneOf(geoIn[5]))

\* <<"body", asked, x, y, scene, selected index>>, resolved at zoom 1
BodyInputs == {<<"body", FALSE, x, y, sc, sel>> :
                    x \in HitGrid, y \in HitGrid, sc \in GeoScenes, sel \in GeoSelections}
ResolveBody ==
    /\ GeoAsk("body")
    /\ LET shapeList == GeoSceneOf(geoIn[5])
           selectedValid == isValidIn(shapeList, geoIn[6])
       IN /\ ~detectHoverThrows(shapeList, geoIn[6], selectedValid)
          /\ geoOut' = detectHover(Pt(geoIn[3], geoIn[4]), shapeList, geoIn[6],
                                   [num |-> 1, den |-> 1], selectedValid)

\* the shapes a resize session starts from
ResizeShapes == {"wide", "tall", "text"}
ResizeShapeOf(name, rotation) ==
    CASE name = "wide" -> [ImageShape(1, 0, 0, 100, 50) EXCEPT !.rotate = rotation]
      [] name = "tall" -> [ImageShape(2, 0, 0, 20, 40) EXCEPT !.rotate = rotation]
      [] name = "text" -> [ImageShape(3, 10, 10, 100, 50) EXCEPT !.rotate = rotation,
                                                                 !.kind = "text"]
ResizeRotations == {ROTATE_NULL, 0, 90, 180}
ResizeXs == {-10, 0, 4, 8, 12, 20, 60, 100, 200}
ResizeYs == {-10, 0, 4, 8, 12, 24, 50, 120}

\* <<"resize", asked, shape, rotation, corner, pointer x, pointer y>>
ResizeInputs == {<<"resize", FALSE, n, r, c, x, y>> :
                    n \in ResizeShapes, r \in ResizeRotations, c \in Corners,
                    x \in ResizeXs, y \in ResizeYs}
ResizeStart(in) == ResizeShapeOf(in[3], in[4])
ResizeCornerPoint(in) ==
    LET c2 == getShapeCorners2(ResizeStart(in))[in[5]]
    IN Pt(Quot(c2.x, 2), Quot(c2.y, 2))
\* a resize session opened at the corner, then one move: calculateResize and
\* the assignments of onShapeResize
ResizeStep ==
    /\ GeoAsk("resize")
    /\ LET shape == ResizeStart(geoIn)
           resizeState == initializeResize(shape, ResizeCornerPoint(geoIn))
           mouse == Pt(geoIn[6], geoIn[7])
           r == calculateResize(resizeState, geoIn[5], mouse, shape.rotate)
       IN /\ RepresentableResize(resizeState, geoIn[5], mouse, shape.rotate)
          /\ geoOut' = [shape EXCEPT !.x = r.x, !.y = r.y,
                                     !.width = r.width, !.height = r.height]

\* the shape a rotate session turns, and pointer positions on the axes through
\* its centre (and the centre itself)
RotateShape(rotation) == [ImageShape(1, 0, 0, 40, 40) EXCEPT !.rotate = rotation]
RotationSamples == {ROTATE_NULL, 0, 45, 90, 180, 270, 359}
PointerSpots == {"centre", "right", "below", "left", "above"}
SpotOf(name) ==
    CASE name = "centre" -> Pt(20, 20)
      [] name = "right" -> Pt(50, 20)
      [] name = "below" -> Pt(20, 50)
      [] name = "left" -> Pt(-10, 20)
      [] name = "above" -> Pt(20, -10)

\* <<"rotate", asked, rotation of the shape, pointer at start, pointer now>>
RotateInputs == {<<"rotate", FALSE, r, a, b>> :
                    r \in RotationSamples, a \in PointerSpots, b \in PointerSpots}
\* a rotate session opened at one spot, then one move to another:
\* calculateRotation and the assignment of onShapeRotate
RotateStep ==
    /\ GeoAsk("rotate")
    /\ LET shape == RotateShape(geoIn[3])
           rotationState == initializeRotation(shape, SpotOf(geoIn[4]))
           shapeCenter == getShapeCenter2(shape)
       IN /\ RepresentableRotation(rotationState, SpotOf(geoIn[5]), shapeCenter)
          /\ geoOut' = [shape EXCEPT !.rotate =
                            calculateRotation(rotationState, SpotOf(geoIn[5]), shapeCenter)]

\* angles getAngleToPoint can return, in degrees
AngleSamples == {0, 10, 90, 170, 180, 190, 270, 350, 359}
\* <<"delta", asked, initial angle, current angle>>
DeltaInputs == {<<"delta", FALSE, a, b>> : a \in AngleSamples, b \in AngleSamples}
RotationDelta ==
    /\ GeoAsk("delta")
    /\ geoOut' = calculateRotationDelta(geoIn[3], geoIn[4])

\* ------------------------------------------------------------------------
\* Shape animations while a page plays (SpecAnimation)
\* ------------------------------------------------------------------------
\* outside SpecAnimation the page has no animated shape and does not play
InitAnim ==
    /\ animShapes = <<>>
    /\ now = 0
    /\ isAutoPlaying = FALSE
    /\ lastFrame = <<>>

\* the clock stops here
MaxTime == 3
\* shapes the animated page may hold
MaxAnimShapes == 2
AnimTypes == {"none", "fade"}
\* an animated shape is <<animation.type, animationStart>>, the start nullable
AnimShape(type, start) == <<type, start>>
AnimPages == {<<>>, <<AnimShape("fade", Null)>>,
              <<AnimShape("none", Null), AnimShape("fade", Null)>>}

\* the animation state function always restarting the shape
calculateAnimationState_restart(shape, time, forceFinalState) ==
    IF forceFinalState THEN shape
    ELSE IF shape[1] # "none" THEN AnimShape(shape[1], Some(time))
    ELSE shape

\* the shape as calculateAnimationState leaves it
calculateAnimationState(shape, time, forceFinalState) ==
    IF forceFinalState THEN shape
    ELSE IF shape[1] # "none" /\ IsNull(shape[2]) THEN AnimShape(shape[1], Some(time))
    ELSE shape

startShapeAnimations(shapesToAnimate, startTime) ==
    [k \in 1..Len(shapesToAnimate) |->
        IF shapesToAnimate[k][1] # "none"
        THEN AnimShape(shapesToAnimate[k][1], Some(startTime))
        ELSE shapesToAnimate[k]]

\* one frame at `time`; `drawn` are the shapes neither skipped as the one
\* being transformed, nor culled, nor waiting for their image
drawAllShapes(time, drawn) ==
    /\ now' = time
    /\ animShapes' =
          [k \in 1..Len(animShapes) |->
              IF k \notin drawn THEN animShapes[k]
              ELSE IF ~isAutoPlaying /\ animShapes[k][1] = "none" THEN animShapes[k]
              ELSE calculateAnimationState(animShapes[k], time, ~isAutoPlaying)]
    /\ lastFrame' = <<time, ~isAutoPlaying, drawn>>
    /\ UNCHANGED isAutoPlaying

AnimFrame ==
    \E time \in (now + 1)..MaxTime : \E drawn \in SUBSET (1..Len(animShapes)) :
        /\ drawAllShapes(time, drawn)
        /\ UNCHANGED <<editorVars, hoverVars, geoVars, textVars, imageVars, playVars, restVars>>

toggleAutoPlay ==
    /\ IF isAutoPlaying
       THEN /\ isAutoPlaying' = FALSE
            /\ UNCHANGED animShapes
       ELSE /\ animShapes' = startShapeAnimations(animShapes, now)
            /\ isAutoPlaying' = TRUE
    /\ lastFrame' = <<>>
    /\ UNCHANGED <<now, editorVars, hoverVars, geoVars, textVars, imageVars, playVars, restVars>>

\* a page arrives: its shapes have no start yet, and start when the page plays
AnimLoadPage(page) ==
    /\ animShapes' = IF isAutoPlaying THEN startShapeAnimations(page, now) ELSE page
    /\ lastFrame' = <<>>
    /\ UNCHANGED <<now, isAutoPlaying, editorVars, hoverVars, geoVars, textVars, imageVars, playVars, restVars>>

\* 'page_state_synced': the shapes are replaced by the synced ones
AnimPageSynced(page) ==
    /\ animShapes' = page
    /\ lastFrame' = <<>>
    /\ UNCHANGED <<now, isAutoPlaying, editorVars, hoverVars, geoVars, textVars, imageVars, playVars, restVars>>

\* paste: a copy of shape k, start included, joins the page
AnimPaste(k) ==
    /\ k \in 1..Len(animShapes)
    /\ Len(animShapes) < MaxAnimShapes
    /\ animShapes' = Append(animShapes, animShapes[k])
    /\ lastFrame' = <<>>
    /\ UNCHANGED <<now, isAutoPlaying, editorVars, hoverVars, geoVars, textVars, imageVars, playVars, restVars>>

\* ------------------------------------------------------------------------
\* lib/canvakit/animation.ts: the state a frame computes for one shape.
\* A number is the fraction <<numerator, denominator>> with a positive
\* denominator in lowest terms; <<0, 0>> is NaN.
\* ------------------------------------------------------------------------
DEFAULT_ANIMATION_DURATION == 300
NaN == <<0, 0>>
IsNaN(v) == v[2] = 0
Num(n, d) == LET g == Gcd(Abs(n), d) IN <<Quot(n, g), d \div g>>
Whole(n) == <<n, 1>>
NumLess(a, b) == ~IsNaN(a) /\ ~IsNaN(b) /\ a[1] * b[2] < b[1] * a[2]
NumTimes(a, b) == IF IsNaN(a) \/ IsNaN(b) THEN NaN ELSE Num(a[1] * b[1], a[2] * b[2])
OneMinus(a) == IF IsNaN(a) THEN NaN ELSE Num(a[2] - a[1], a[2])
Negated(a) == IF IsNaN(a) THEN NaN ELSE <<-a[1], a[2]>>

\* the progress without its upper clamp
Progress_unclamped(animationElapsed, animDuration) ==
    IF animDuration = 0
    THEN IF animationElapsed = 0 THEN NaN
         ELSE IF animationElapsed > 0 THEN Whole(1) ELSE Whole(0)
    ELSE LET q == IF animDuration > 0 THEN Num(animationElapsed, animDuration)
                  ELSE Num(-animationElapsed, -animDuration)
         IN IF NumLess(q, Whole(0)) THEN Whole(0) ELSE q

\* Math.max(0, Math.min(1, animationElapsed / animDuration)): 0 / 0 is NaN
\* and stays NaN through min and max, x / 0 is an infinity of x's sign
Progress(animationElapsed, animDuration) ==
    IF animDuration = 0
    THEN IF animationElapsed = 0 THEN NaN
         ELSE IF animationElapsed > 0 THEN Whole(1) ELSE Whole(0)
    ELSE LET q == IF animDuration > 0 THEN Num(animationElapsed, animDuration)
                  ELSE Num(-animationElapsed, -animDuration)
         IN IF NumLess(Whole(1), q) THEN Whole(1)
            ELSE IF NumLess(q, Whole(0)) THEN Whole(0)
            ELSE q

SettledState ==
    [shouldDraw |-> TRUE, alpha |-> Whole(1), clipRect |-> Null,
     offsetX |-> Whole(0), offsetY |-> Whole(0), progress |-> Whole(1),
     isAnimating |-> FALSE]

\* the waiting pose of the delay period
DelayState(animType, direction, box) ==
    [shouldDraw |-> animType \notin {"fade", "wipe"},
     alpha |-> IF animType = "fade" THEN Whole(0) ELSE Whole(1),
     clipRect |-> Null,
     offsetX |-> IF animType = "pan"
                 THEN IF direction = "left" THEN Whole(-box[3]) ELSE Whole(box[3])
                 ELSE Whole(0),
     offsetY |-> IF animType = "raise" THEN Whole(box[4]) ELSE Whole(0),
     progress |-> Whole(0),
     isAnimating |-> TRUE]

\* the pose at a progress after the delay
RunningState(animType, direction, box, progress) ==
    LET \* 1 - easedProgress = (1 - progress)^3
        rest == NumTimes(OneMinus(progress),
                         NumTimes(OneMinus(progress), OneMinus(progress)))
        dstHeight == NumTimes(Whole(box[4]), progress)
    IN [shouldDraw |-> ~(animType = "wipe" /\ ~NumLess(Whole(0), dstHeight)),
        alpha |-> IF animType = "fade" THEN progress ELSE Whole(1),
        clipRect |-> IF animType = "wipe" /\ NumLess(Whole(0), dstHeight)
                     THEN Some(<<box[1], box[2], box[3], dstHeight>>)
                     ELSE Null,
        offsetX |-> IF animType = "pan"
                    THEN IF direction = "left"
                         THEN NumTimes(Whole(-box[3]), rest)
                         ELSE NumTimes(Whole(box[3]), rest)
                    ELSE Whole(0),
        offsetY |-> IF animType = "raise" THEN NumTimes(Whole(box[4]), rest)
                    ELSE Whole(0),
        progress |-> progress,
        isAnimating |-> NumLess(progress, Whole(1))]

\* the state function honouring forceFinalState only for a started shape
AnimationState_startedOnly(shape, props, box, time, forceFinalState) ==
    LET animType == shape[1]
        animDuration == IF IsNull(props[1]) THEN DEFAULT_ANIMATION_DURATION
                        ELSE Val(props[1])
        animDelay == IF IsNull(props[2]) THEN 0 ELSE Val(props[2])
        direction == IF IsNull(props[3]) THEN "left" ELSE Val(props[3])
        started == IF animType # "none" /\ IsNull(shape[2]) THEN Some(time) ELSE shape[2]
    IN IF forceFinalState /\ ~IsNull(shape[2]) THEN SettledState
       ELSE IF animType # "none" /\ ~IsNull(started)
       THEN LET elapsed == time - Val(started)
            IN IF elapsed < animDelay THEN DelayState(animType, direction, box)
               ELSE RunningState(animType, direction, box,
                                 Progress(elapsed - animDelay, animDuration))
       ELSE SettledState

\* the AnimationState calculateAnimationState returns; shape is <<type, start>>,
\* props is <<duration, delay, direction>>, each nullable, box is <<x, y, width, height>>
AnimationState(shape, props, box, time, forceFinalState) ==
    LET animType == shape[1]
        animDuration == IF IsNull(props[1]) THEN DEFAULT_ANIMATION_DURATION
                        ELSE Val(props[1])
        animDelay == IF IsNull(props[2]) THEN 0 ELSE Val(props[2])
        direction == IF IsNull(props[3]) THEN "left" ELSE Val(props[3])
        started == calculateAnimationState(shape, time, forceFinalState)[2]
    IN IF forceFinalState THEN SettledState
       ELSE IF animType # "none" /\ ~IsNull(started)
       THEN LET elapsed == time - Val(started)
            IN IF elapsed < animDelay THEN DelayState(animType, direction, box)
               ELSE RunningState(animType, direction, box,
                                 Progress(elapsed - animDelay, animDuration))
       ELSE SettledState

\* ------------------------------------------------------------------------
\* lib/utils/viewport.ts: culling
\* ------------------------------------------------------------------------
\* the visibility test culling a shape that only touches an edge
isRectVisible_open(x, y, width, height, viewport) ==
    LET right == x + width
        bottom == y + height
    IN ~(right <= viewport.left \/ x >= viewport.right
         \/ bottom <= viewport.top \/ y >= viewport.bottom)

isRectVisible(x, y, width, height, viewport) ==
    LET right == x + width
        bottom == y + height
    IN ~(right < viewport.left \/ x > viewport.right
         \/ bottom < viewport.top \/ y > viewport.bottom)

CullViewport == [left |-> 0, right |-> 6, top |-> 0, bottom |-> 4]
CullXs == {-5, -3, -2, 0, 2, 6, 7}
CullYs == {-4, -2, -1, 0, 1, 4, 5}
CullSizes == {0, 2, 3, 12}
\* <<"cull", asked, x, y, width, height>>
CullInputs == {<<"cull", FALSE, x, y, w, h>> :
                    x \in CullXs, y \in CullYs, w \in CullSizes, h \in CullSizes}
CullStep ==
    /\ GeoAsk("cull")
    /\ geoOut' = isRectVisible(geoIn[3], geoIn[4], geoIn[5], geoIn[6], CullViewport)

\* ------------------------------------------------------------------------
\* lib/utils/coordinates.ts on fractional coordinates
\* ------------------------------------------------------------------------
NumPlus(a, b) == IF IsNaN(a) \/ IsNaN(b) THEN NaN
                 ELSE Num(a[1] * b[2] + b[1] * a[2], a[2] * b[2])
NumMinus(a, b) == NumPlus(a, Negated(b))
\* a / b for b other than 0
NumOver(a, b) == IF IsNaN(a) \/ IsNaN(b) THEN NaN
                 ELSE IF b[1] > 0 THEN Num(a[1] * b[2], a[2] * b[1])
                 ELSE Num(-(a[1] * b[2]), -(a[2] * b[1]))
ZoomNum(cam) == <<cam.zoom.num, cam.zoom.den>>

\* the conversion adding the pan before it scales
worldToScreen_panFirst(worldX, worldY, cam) ==
    Pt(NumTimes(NumPlus(worldX, Whole(cam.panX)), ZoomNum(cam)),
       NumTimes(NumPlus(worldY, Whole(cam.panY)), ZoomNum(cam)))

worldToScreen(worldX, worldY, cam) ==
    Pt(NumPlus(NumTimes(worldX, ZoomNum(cam)), Whole(cam.panX)),
       NumPlus(NumTimes(worldY, ZoomNum(cam)), Whole(cam.panY)))

\* screenToWorld where the result need not be whole
screenToWorldNum(screenX, screenY, cam) ==
    Pt(NumOver(NumMinus(screenX, Whole(cam.panX)), ZoomNum(cam)),
       NumOver(NumMinus(screenY, Whole(cam.panY)), ZoomNum(cam)))

CoordZooms == {<<1, 5>>, <<1, 2>>, <<9, 10>>, <<1, 1>>, <<11, 10>>, <<3, 1>>, <<10, 1>>}
CoordPans == {-30, 0, 100}
CoordXs == {-70, -1, 0, 3, 55}
CoordYs == {-20, 0, 7}
\* <<"coords", asked, x, y, zoom, panX, panY>>
CoordInputs == {<<"coords", FALSE, x, y, z, px, py>> :
                    x \in CoordXs, y \in CoordYs, z \in CoordZooms,
                    px \in CoordPans, py \in CoordPans}
\* <<worldToScreen of the point, screenToWorld of that, screenToWorld of the point>>
CoordStep ==
    /\ GeoAsk("coords")
    /\ LET cam == [zoom |-> [num |-> geoIn[5][1], den |-> geoIn[5][2]],
                   panX |-> geoIn[6], panY |-> geoIn[7], isPanning |-> FALSE]
           screen == worldToScreen(Whole(geoIn[3]), Whole(geoIn[4]), cam)
       IN geoOut' = <<screen,
                      screenToWorldNum(screen.x, screen.y, cam),
                      screenToWorldNum(Whole(geoIn[3]), Whole(geoIn[4]), cam)>>

\* ------------------------------------------------------------------------
\* lib/utils/cursor.ts, lib/utils/resize.ts (corner directions), updateCursor
\* ------------------------------------------------------------------------
CURSOR_DEFAULT == "default"
CURSOR_POINTER == "pointer"
CURSOR_GRAB == "grab"
CURSOR_GRABBING == "grabbing"
NO_DIRECTION == "null"

DEFAULT_CORNER_DIRECTIONS(corner) ==
    CASE corner = "top-left" -> "n"
      [] corner = "top-right" -> "e"
      [] corner = "bottom-left" -> "w"
      [] corner = "bottom-right" -> "s"

\* the sector of atan2(dy, dx): east is [315, 45), south [45, 135), west
\* [135, 225), north [225, 315); atan2(0, 0) is 0
angleToCardinalDirection(dx, dy) ==
    IF (dx > 0 /\ -dx <= dy /\ dy < dx) \/ (dx = 0 /\ dy = 0) THEN "e"
    ELSE IF dy > 0 /\ -dy < dx /\ dx <= dy THEN "s"
    ELSE IF dx < 0 /\ dx < dy /\ dy <= -dx THEN "w"
    ELSE "n"

\* rotation is a multiple of 90 degrees or null
getCornerDirection(corner, shape, rotation) ==
    IF rotation = ROTATE_NULL \/ rotation = 0 THEN DEFAULT_CORNER_DIRECTIONS(corner)
    ELSE LET center == getShapeCenter2(shape)
             rotatedCorner == rotatePoint(getShapeCorners2(shape)[corner], center, rotation)
         IN angleToCardinalDirection(rotatedCorner.x - center.x, rotatedCorner.y - center.y)

DIRECTION_TO_CURSOR(direction) ==
    IF direction \in {"n", "s"} THEN "ns-resize" ELSE "ew-resize"
CORNER_TO_DIAGONAL_CURSOR(corner) ==
    IF corner \in {"top-left", "bottom-right"} THEN "nwse-resize" ELSE "nesw-resize"

getResizeCursor(direction, corner, rotation) ==
    IF rotation = ROTATE_NULL \/ rotation = 0 THEN CORNER_TO_DIAGONAL_CURSOR(corner)
    ELSE DIRECTION_TO_CURSOR(direction)

\* the cursor choice asking about pan mode last
getCursorStyle_panLast(options) ==
    IF options.hoveredResizeCorner # NO_CORNER /\ options.resizeDirection # NO_DIRECTION
    THEN getResizeCursor(options.resizeDirection, options.hoveredResizeCorner,
                         options.rotation)
    ELSE IF options.hasHoveredShape
    THEN IF options.isDragging THEN CURSOR_GRABBING ELSE CURSOR_POINTER
    ELSE IF options.isPanning
    THEN IF options.isMouseDown THEN CURSOR_GRABBING ELSE CURSOR_GRAB
    ELSE CURSOR_DEFAULT

getCursorStyle(options) ==
    IF options.isPanning
    THEN IF options.isMouseDown THEN CURSOR_GRABBING ELSE CURSOR_GRAB
    ELSE IF options.hoveredResizeCorner # NO_CORNER /\ options.resizeDirection # NO_DIRECTION
    THEN getResizeCursor(options.resizeDirection, options.hoveredResizeCorner,
                         options.rotation)
    ELSE IF options.hasHoveredShape
    THEN IF options.isDragging THEN CURSOR_GRABBING ELSE CURSOR_POINTER
    ELSE CURSOR_DEFAULT

\* the cursor updateCursor hands to onCursorUpdate; selected is the selected
\* shape, read only when selectedValid
updateCursor(hover, selectedValid, selected, mouse, isPanning) ==
    IF hover.isHoveringRotateCircle /\ selectedValid
    THEN IF mouse.isMouseDown THEN CURSOR_GRABBING ELSE CURSOR_GRAB
    ELSE LET onCorner == hover.resizeCorner # NO_CORNER /\ selectedValid
         IN getCursorStyle(
                [isPanning |-> isPanning,
                 isMouseDown |-> mouse.isMouseDown,
                 isDragging |-> mouse.isDragging,
                 hoveredResizeCorner |-> hover.resizeCorner,
                 resizeDirection |-> IF onCorner
                                     THEN getCornerDirection(hover.resizeCorner, selected,
                                                             selected.rotate)
                                     ELSE NO_DIRECTION,
                 hasHoveredShape |-> hover.shapeIndex # INVALID_INDEX,
                 rotation |-> IF onCorner THEN selected.rotate ELSE ROTATE_NULL])

CursorShapes == {"wide", "tall"}
CursorRotations == {ROTATE_NULL, 0, 90, 180, 270}
\* <<"cursor", asked, rotate handle hovered, corner hovered, shape hovered,
\*   selection valid, pan mode, button down, dragging, selected shape, rotation>>
CursorInputs ==
    {<<"cursor", FALSE, rh, c, hs, sv, pan, down, drag, n, r>> :
        rh \in BOOLEAN, c \in Corners \cup {NO_CORNER}, hs \in BOOLEAN, sv \in BOOLEAN,
        pan \in BOOLEAN, down \in BOOLEAN, drag \in BOOLEAN,
        n \in CursorShapes, r \in CursorRotations}
CursorStep ==
    /\ GeoAsk("cursor")
    /\ geoOut' = updateCursor(
                     [shapeIndex |-> IF geoIn[5] THEN 0 ELSE INVALID_INDEX,
                      resizeCorner |-> geoIn[4],
                      isHoveringRotateCircle |-> geoIn[3]],
                     geoIn[6], ResizeShapeOf(geoIn[10], geoIn[11]),
                     [isMouseDown |-> geoIn[8], isDragging |-> geoIn[9]], geoIn[7])

AllAnimTypes == {"none", "fade", "wipe", "raise", "pan"}
AnimDurations == {Null, Some(0), Some(2), Some(4)}
AnimDelays == {Null, Some(2)}
AnimDirections == {Null, Some("right")}
AnimStarts == {Null, Some(0), Some(1)}
FrameTimes == {0, 1, 2, 3, 4, 5, 6, 7, 300, 301}
AnimBox == <<10, 20, 40, 8>>
\* <<"anim", asked, type, start, duration, delay, direction, t0, t1, forceFinalState>>
AnimInputs ==
    {<<"anim", FALSE, ty, st, du, de, di, t0, t1, f>> :
        ty \in AllAnimTypes, st \in AnimStarts, du \in AnimDurations,
        de \in AnimDelays, di \in AnimDirections,
        t0 \in FrameTimes, t1 \in FrameTimes, f \in BOOLEAN}
\* two frames in a row over one shape: <<state at t0, state at t1, shape after
\* the first frame, shape after the second>>
AnimStateStep ==
    /\ GeoAsk("anim")
    /\ geoIn[8] < geoIn[9]
    /\ LET shape == AnimShape(geoIn[3], geoIn[4])
           props == <<geoIn[5], geoIn[6], geoIn[7]>>
           first == calculateAnimationState(shape, geoIn[8], geoIn[10])
           second == calculateAnimationState(first, geoIn[9], geoIn[10])
       IN geoOut' = <<AnimationState(shape, props, AnimBox, geoIn[8], geoIn[10]),
                      AnimationState(first, props, AnimBox, geoIn[9], geoIn[10]),
                      first, second>>

\* ------------------------------------------------------------------------
\* Editor.svelte and lib/canvakit/image.ts: lazy loading of images
\* ------------------------------------------------------------------------
\* an image shape as the loader sees it: url, rectangle, image (null at first)
LazyImage(url, x, y, width, height) ==
    [kind |-> "image", url |-> url, x |-> x, y |-> y, width |-> width,
     height |-> height, image |-> Null]

calculateViewport(width, height, cam) ==
    [left |-> Quot((-cam.panX) * cam.zoom.den, cam.zoom.num),
     right |-> Quot((width - cam.panX) * cam.zoom.den, cam.zoom.num),
     top |-> Quot((-cam.panY) * cam.zoom.den, cam.zoom.num),
     bottom |-> Quot((height - cam.panY) * cam.zoom.den, cam.zoom.num)]

InView(shape, cam) ==
    isRectVisible(shape.x, shape.y, shape.width, shape.height,
                  calculateViewport(canvasWidth, canvasHeight, cam))

\* the shapes from index k on for which the forEach of checkVisibleImages gets
\* past the first line of loadImageForShape, `loading` being loadingImageUrls
\* as the earlier shapes left it
RECURSIVE StartedFrom(_, _)
StartedFrom(k, loading) ==
    IF k > Len(imageShapes) THEN {}
    ELSE LET shape == imageShapes[k]
         IN IF /\ shape.kind = "image"
               /\ IsNull(shape.image)
               /\ InView(shape, cameraState)
               /\ shape.url \notin loading
            THEN {k} \cup StartedFrom(k + 1, loading \cup {shape.url})
            ELSE StartedFrom(k + 1, loading)

\* loadImageForShape up to its await, loadSkImage up to its own: the url is
\* marked as loading and, unless image.ts holds it already, its fetch starts
checkVisibleImages ==
    LET started == StartedFrom(1, loadingImageUrls)
        urls == {imageShapes[k].url : k \in started}
    IN /\ loadingImageUrls' = loadingImageUrls \cup urls
       /\ imageLoads' = imageLoads \cup started
       /\ imageCache' = [url \in DOMAIN imageCache |->
                            IF url \in urls /\ imageCache[url] = "none"
                            THEN "pending" ELSE imageCache[url]]
       /\ imageStale' = imageStale \ started
       /\ imageLog' = [op |-> "frame", started |-> started,
                       drawn |-> {k \in 1..Len(imageShapes) :
                                     /\ InView(imageShapes[k], cameraState)
                                     /\ ~IsNull(imageShapes[k].image)}]
       /\ UNCHANGED imageShapes

\* drawScene on a loaded page: the pending draw callbacks run, each checks
\* the visible images and draws the shapes
ImageFrame ==
    /\ ~isLoading
    /\ scheduledFrames + loadingLoops > 0
    /\ Frame(FALSE)
    /\ checkVisibleImages
    /\ UNCHANGED <<hoverVars, geoVars, animVars, textVars, playVars, restVars>>

\* the rest of loadImageForShape for shape k, once loadSkImage has settled:
\* `bytes` is what the fetch brought, "good" bytes decode, "bad" bytes make
\* MakeImageFromEncoded return null, "none" is a rejected fetch, which
\* image.ts forgets.  Bytes held already are the ones decoded again.
ImageLoaded(k, bytes) ==
    /\ k \in imageLoads
    /\ LET url == imageShapes[k].url
       IN /\ IF imageCache[url] = "pending" THEN bytes \in {"good", "bad", "none"}
             ELSE bytes = imageCache[url]
          /\ imageCache' = [imageCache EXCEPT ![url] = bytes]
          /\ loadingImageUrls' = loadingImageUrls \ {url}
          /\ imageLoads' = imageLoads \ {k}
          /\ IF bytes = "good"
             THEN /\ imageShapes' = [imageShapes EXCEPT ![k].image = Some(url)]
                  /\ scheduleDraw
             ELSE /\ UNCHANGED imageShapes
                  /\ noDraw
          /\ imageStale' = IF bytes = "bad" /\ InView(imageShapes[k], cameraState)
                           THEN imageStale \cup {k} ELSE imageStale \ {k}
          /\ imageLog' = [op |-> CASE bytes = "good" -> "loaded"
                                   [] bytes = "bad" -> "decode failed"
                                   [] OTHER -> "fetch failed",
                          started |-> {}, drawn |-> {}]
    /\ UNCHANGED <<shapes, selectedShape, hoverState, mouseState, cameraState,
                   resizingCorner, resizeStartState, rotationStartState,
                   transformingShapeIndex, transformationType, clipboard, history,
                   historyLost, loadingLoops, isLoading, loadingAnimation,
                   hoverCheckTimeout, pointer, transforms, last>>
    /\ UNCHANGED <<hoverVars, geoVars, animVars, textVars, playVars, restVars>>

\* the camera positions a pan may reach
ImagePanXs == {-100, 0, 60, 100}
\* a pan by deltaX: onPanning moves the camera and the move schedules a draw
ImagePan(deltaX) ==
    /\ cameraState.panX + deltaX \in ImagePanXs
    /\ cameraState' = [cameraState EXCEPT !.panX = @ + deltaX]
    /\ scheduleDraw
    /\ imageStale' = {k \in imageStale : InView(imageShapes[k], cameraState')}
    /\ imageLog' = [op |-> "pan", started |-> {}, drawn |-> {}]
    /\ UNCHANGED <<imageShapes, loadingImageUrls, imageLoads, imageCache>>
    /\ UNCHANGED <<shapes, selectedShape, hoverState, mouseState, resizingCorner,
                   resizeStartState, rotationStartState, transformingShapeIndex,
                   transformationType, clipboard, history, historyLost,
                   loadingLoops, isLoading, loadingAnimation, hoverCheckTimeout,
                   pointer, transforms, last>>
    /\ UNCHANGED <<hoverVars, geoVars, animVars, textVars, playVars, restVars>>

\* two images side by side, the second one beyond the right edge at first, and
\* a third sharing the url of the first
ImageScene == <<LazyImage("a", 0, 0, 40, 40), LazyImage("b", 150, 0, 40, 40),
                LazyImage("a", 0, 50, 40, 40)>>

\* ------------------------------------------------------------------------
\* Editor.svelte: auto-play over the pages of a document
\* ------------------------------------------------------------------------
\* frames stop at this time
MaxPlayTime == 5
\* setTimeout callbacks of loadPage that may be pending at once
MaxAdvanceTimers == 2

\* what a frame needs of a shape besides its animation start: kind, animation
\* type, duration and delay, whether it lies in the viewport, whether its
\* image is decoded
PlayShape(kind, type, duration, inView, decoded) ==
    [kind |-> kind, type |-> type, duration |-> Some(duration), delay |-> Null,
     inView |-> inView, decoded |-> decoded]
\* page 0: a fade in view and a longer one outside the viewport; page 1: no
\* animation; page 2: a text that fades and an image still to decode
PlayDocument ==
    << <<PlayShape("text", "fade", 2, TRUE, TRUE),
         PlayShape("text", "fade", 4, FALSE, TRUE)>>,
       <<PlayShape("text", "none", 2, TRUE, TRUE)>>,
       <<PlayShape("text", "fade", 1, TRUE, TRUE),
         PlayShape("image", "raise", 3, TRUE, FALSE)>> >>
\* the page's shapes as the document holds them: <<type, animationStart>>
PlayPage(pageIndex) ==
    [k \in 1..Len(PlayDocument[pageIndex + 1]) |->
        AnimShape(PlayDocument[pageIndex + 1][k].type, Null)]
nextPageIndex == (currentPageIndex + 1) % Len(PlayDocument)

hasAnimations(shapesToCheck) ==
    \E k \in 1..Len(shapesToCheck) : shapesToCheck[k][1] # "none"

\* switchToPage followed by the loadPage its reactive statement runs, as far
\* as playing goes; `timers` are the pending callbacks once the caller is done
switchToPage(pageIndex, time, timers) ==
    /\ currentPageIndex' = pageIndex
    /\ IF isAutoPlaying
       THEN IF hasAnimations(PlayPage(pageIndex))
            THEN /\ animShapes' = startShapeAnimations(PlayPage(pageIndex), time)
                 /\ wasAnimating' = TRUE
                 /\ advanceTimers' = timers
            ELSE /\ animShapes' = PlayPage(pageIndex)
                 /\ wasAnimating' = FALSE
                 /\ timers < MaxAdvanceTimers
                 /\ advanceTimers' = timers + 1
       ELSE /\ animShapes' = PlayPage(pageIndex)
            /\ wasAnimating' = FALSE
            /\ advanceTimers' = timers

\* the shapes drawAllShapes gets to: in the viewport, image decoded
PlayDrawn(k) ==
    LET shape == PlayDocument[currentPageIndex + 1][k]
    IN shape.inView /\ (shape.kind = "image" => shape.decoded)
\* the state drawAnimatedImageShape or drawAnimatedTextShape computes at `time`
PlayStateOf(k, time) ==
    LET shape == PlayDocument[currentPageIndex + 1][k]
    IN AnimationState(animShapes[k], <<shape.duration, shape.delay, Null>>, AnimBox,
                      time, ~isAutoPlaying)
\* drawAllShapes returning hasAnimatingShapes
hasAnimatingShapes(time) ==
    \E k \in 1..Len(animShapes) :
        /\ PlayDrawn(k)
        /\ isAutoPlaying \/ animShapes[k][1] # "none"
        /\ PlayStateOf(k, time).isAnimating

\* drawScene at `time`: the shapes are drawn, and in auto-play the page
\* advances when the frame before had an animating shape and this one has none
PlayFrame(time) ==
    /\ ~isLoading
    /\ scheduledFrames + loadingLoops > 0
    /\ time \in now..MaxPlayTime
    /\ now' = time
    /\ LET isAnimating == hasAnimatingShapes(time)
           animationsJustCompleted == wasAnimating /\ ~isAnimating
           advance == isAutoPlaying /\ animationsJustCompleted /\ Len(PlayDocument) > 0
       IN /\ Frame(isAnimating \/ advance)
          /\ IF advance
             THEN /\ switchToPage(nextPageIndex, time, advanceTimers)
                  /\ playLog' = "frame advanced"
             ELSE /\ animShapes' =
                        [k \in 1..Len(animShapes) |->
                            IF PlayDrawn(k) /\ (isAutoPlaying \/ animShapes[k][1] # "none")
                            THEN calculateAnimationState(animShapes[k], time, ~isAutoPlaying)
                            ELSE animShapes[k]]
                  /\ wasAnimating' = isAnimating
                  /\ playLog' = "frame"
                  /\ UNCHANGED <<currentPageIndex, advanceTimers>>
    /\ lastFrame' = <<>>
    /\ UNCHANGED <<isAutoPlaying, hoverVars, geoVars, textVars, imageVars, restVars>>

\* what the play handlers leave alone
PlayRest ==
    /\ lastFrame' = <<>>
    /\ noHistory
    /\ UNCHANGED <<mouseState, resizingCorner, resizeStartState, rotationStartState,
                   transformingShapeIndex, transformationType, clipboard, loadingLoops,
                   isLoading, loadingAnimation, hoverCheckTimeout, pointer, transforms,
                   last>>
    /\ UNCHANGED <<now, hoverVars, geoVars, textVars, imageVars, restVars>>

\* the callback loadPage registers on a page without animations
PlayTimer ==
    /\ advanceTimers > 0
    /\ switchToPage(nextPageIndex, now, advanceTimers - 1)
    /\ loadPage(shapes)
    /\ playLog' = "timer"
    /\ UNCHANGED isAutoPlaying
    /\ PlayRest

\* a click on the thumbnail of another page
PlaySwitch(pageIndex) ==
    /\ pageIndex # currentPageIndex
    /\ switchToPage(pageIndex, now, advanceTimers)
    /\ loadPage(shapes)
    /\ playLog' = "switch"
    /\ UNCHANGED isAutoPlaying
    /\ PlayRest

\* toggleAutoPlay with its redraw
PlayToggle ==
    /\ IF isAutoPlaying
       THEN /\ isAutoPlaying' = FALSE
            /\ wasAnimating' = FALSE
            /\ noDraw
            /\ UNCHANGED animShapes
       ELSE /\ animShapes' = startShapeAnimations(animShapes, now)
            /\ isAutoPlaying' = TRUE
            /\ wasAnimating' = TRUE
            /\ scheduleDraw
    /\ playLog' = "toggle"
    /\ UNCHANGED <<shapes, selectedShape, hoverState, cameraState, currentPageIndex,
                   advanceTimers>>
    /\ PlayRest

\* ------------------------------------------------------------------------
\* CanvasKitWebSocket: connect, heartbeat, reconnect, close
\* ------------------------------------------------------------------------
\* the default of the heartbeatIntervalMs option
heartbeatIntervalMs == 15000
\* failed connections in a row
MaxReconnects == 3
\* pings counted
MaxPings == 2

\* stopHeartbeat, then setInterval unless the interval is 0
startHeartbeat ==
    IF heartbeatIntervalMs <= 0
    THEN /\ wsLog' = "open"
         /\ UNCHANGED heartbeatIntervalId
    ELSE /\ heartbeatIntervalId' = TRUE
         /\ wsLog' = "heartbeat"

scheduleReconnect ==
    IF reconnectTimeoutId
    THEN /\ wsLog' = "none"
         /\ UNCHANGED <<reconnectAttempts, reconnectTimeoutId>>
    ELSE /\ reconnectAttempts' = reconnectAttempts + 1
         /\ reconnectTimeoutId' = TRUE
         /\ wsLog' = "reconnect"

\* ws.onopen of the socket being established
WsOnOpen ==
    /\ readyState = "CONNECTING"
    /\ readyState' = "OPEN"
    /\ reconnectAttempts' = 0
    /\ startHeartbeat
    /\ UNCHANGED <<reconnectTimeoutId, manualClose, closeCalled, listeners, pingsSent>>

\* ws.onclose: the connection failed, was dropped, or finished closing
WsOnClose ==
    /\ readyState \in {"CONNECTING", "OPEN", "CLOSING"}
    /\ reconnectAttempts < MaxReconnects
    /\ readyState' = "CLOSED"
    /\ heartbeatIntervalId' = FALSE
    /\ IF ~manualClose
       THEN scheduleReconnect
       ELSE /\ wsLog' = "none"
            /\ UNCHANGED <<reconnectAttempts, reconnectTimeoutId>>
    /\ UNCHANGED <<manualClose, closeCalled, listeners, pingsSent>>

\* the interval callback: send({event: 'ping'}) goes out on an open socket
WsHeartbeat ==
    /\ heartbeatIntervalId
    /\ pingsSent < MaxPings
    /\ IF readyState = "OPEN"
       THEN /\ pingsSent' = pingsSent + 1
            /\ wsLog' = "ping"
       ELSE /\ wsLog' = "none"
            /\ UNCHANGED pingsSent
    /\ UNCHANGED <<readyState, heartbeatIntervalId, reconnectTimeoutId,
                   reconnectAttempts, manualClose, closeCalled, listeners>>

\* the reconnect timer: connect() makes a new socket
WsReconnect ==
    /\ reconnectTimeoutId
    /\ reconnectTimeoutId' = FALSE
    /\ readyState' = "CONNECTING"
    /\ manualClose' = FALSE
    /\ wsLog' = "connect"
    /\ UNCHANGED <<heartbeatIntervalId, reconnectAttempts, closeCalled, listeners,
                   pingsSent>>

\* close(): ws.close() only on an open socket
WsClose ==
    /\ manualClose' = TRUE
    /\ heartbeatIntervalId' = FALSE
    /\ reconnectTimeoutId' = FALSE
    /\ readyState' = IF readyState = "OPEN" THEN "CLOSING" ELSE readyState
    /\ closeCalled' = TRUE
    /\ wsLog' = "close"
    /\ UNCHANGED <<reconnectAttempts, listeners, pingsSent>>

\* ws.onmessage: a text frame is warned about, a pong is swallowed, any
\* other binary message goes to every listener
Frames == {"text", "pong", "data"}
WsOnMessage(frame) ==
    /\ readyState \in {"OPEN", "CLOSING"}
    /\ wsLog' = CASE frame = "text" -> "warn"
                  [] frame = "pong" -> "none"
                  [] OTHER -> IF listeners = {} THEN "none" ELSE "delivered"
    /\ UNCHANGED <<readyState, heartbeatIntervalId, reconnectTimeoutId,
                   reconnectAttempts, manualClose, closeCalled, listeners, pingsSent>>

Listeners == {"editor", "debug"}
addMessageListener(listener) ==
    /\ listeners' = listeners \cup {listener}
    /\ wsLog' = "none"
    /\ UNCHANGED <<readyState, heartbeatIntervalId, reconnectTimeoutId,
                   reconnectAttempts, manualClose, closeCalled, pingsSent>>

removeMessageListener(listener) ==
    /\ listeners' = listeners \ {listener}
    /\ wsLog' = "none"
    /\ UNCHANGED <<readyState, heartbeatIntervalId, reconnectTimeoutId,
                   reconnectAttempts, manualClose, closeCalled, pingsSent>>

\* ------------------------------------------------------------------------
\* lib/canvakit/animation.ts: calculateFitFontSize
\* ------------------------------------------------------------------------
\* the defaults of minFontSize and maxFontSize
MinFontSize == 8
MaxFontSize == 2000
\* <<minFontSize, maxFontSize>> of a call
FontRanges == {<<MinFontSize, MaxFontSize>>, <<MinFontSize, MinFontSize>>,
               <<MinFontSize, MinFontSize + 1>>, <<MinFontSize, MinFontSize + 7>>}

\* a linear walk from the low end
FitMid_low(low, high) == low
\* Math.floor((low + high) / 2)
FitMid(low, high) == (low + high) \div 2

\* the call: empty text and a box under 10 pixels return minFontSize at once
calculateFitFontSize(minFontSize, maxFontSize, emptyText, smallBox) ==
    /\ IF IsNull(fitSearch) THEN TRUE ELSE Val(fitSearch).returned
    /\ fitSearch' = Some([minFontSize |-> minFontSize, maxFontSize |-> maxFontSize,
                          low |-> minFontSize, high |-> maxFontSize,
                          bestFit |-> minFontSize, iterations |-> 0,
                          returned |-> emptyText \/ smallBox])

\* one pass of the loop: the paragraph is laid out at mid and fits or not
FitStep(fits) ==
    /\ ~IsNull(fitSearch)
    /\ ~Val(fitSearch).returned
    /\ Val(fitSearch).low <= Val(fitSearch).high
    /\ LET f == Val(fitSearch)
           mid == FitMid(f.low, f.high)
       IN fitSearch' = Some(IF fits
                            THEN [f EXCEPT !.bestFit = mid, !.low = mid + 1,
                                           !.iterations = @ + 1]
                            ELSE [f EXCEPT !.high = mid - 1, !.iterations = @ + 1])

\* the loop is left: return bestFit
FitReturn ==
    /\ ~IsNull(fitSearch)
    /\ ~Val(fitSearch).returned
    /\ Val(fitSearch).low > Val(fitSearch).high
    /\ fitSearch' = Some([Val(fitSearch) EXCEPT !.returned = TRUE])

\* ------------------------------------------------------------------------
\* Editor.svelte: 'shape_created' from another client
\* ------------------------------------------------------------------------
\* image loads under way at once
MaxRemoteLoads == 2
\* the shapes the events carry; id 0 stands for a missing id
RemoteIds == {0, 3, 4}
RemoteShape(id) == ImageShape(id, 0, 0, 40, 40)

RemoteFrame ==
    /\ noHistory
    /\ UNCHANGED <<selectedShape, hoverState, mouseState, cameraState, resizingCorner,
                   resizeStartState, rotationStartState, transformingShapeIndex,
                   transformationType, clipboard, loadingLoops, isLoading,
                   loadingAnimation, hoverCheckTimeout, pointer, transforms>>

\* shapes.some((s) => s.id === newShape.id)
exists(newShape) == \E k \in 1..Len(shapes) : shapes[k].id = newShape.id

\* shapes = [...shapes, newShape]; scheduleDraw()
AddRemote(newShape) ==
    /\ Len(shapes) < MaxShapes
    /\ shapes' = Append(shapes, newShape)
    /\ scheduleDraw

\* the handler: an image shape with a url is added when its image has loaded
ShapeCreated(newShape, url) ==
    /\ IF newShape.id = 0 \/ exists(newShape)
       THEN /\ last' = Did("shapeCreated", "none")
            /\ noDraw
            /\ UNCHANGED <<shapes, remoteLoads>>
       ELSE IF newShape.kind = "image" /\ url
       THEN /\ Len(remoteLoads) < MaxRemoteLoads
            /\ remoteLoads' = Append(remoteLoads, newShape)
            /\ last' = Did("shapeCreated", "loading")
            /\ noDraw
            /\ UNCHANGED shapes
       ELSE /\ AddRemote(newShape)
            /\ last' = Did("shapeCreated", "added")
            /\ UNCHANGED remoteLoads
    /\ RemoteFrame

\* loadSkImage(ck, newShape.url).then: the image, or null when it failed
RemoteImageLoaded(k, image) ==
    /\ k \in 1..Len(remoteLoads)
    /\ remoteLoads' = RemoveAt(remoteLoads, k - 1)
    /\ IF image
       THEN /\ AddRemote(remoteLoads[k])
            /\ last' = Did("shapeCreated", "loaded")
       ELSE /\ last' = Did("shapeCreated", "failed")
            /\ noDraw
            /\ UNCHANGED shapes
    /\ RemoteFrame

\* ------------------------------------------------------------------------
\* Specifications
\* ------------------------------------------------------------------------
Init == InitEditor /\ InitHover /\ InitGeo /\ InitAnim

\* pointer and key interaction on a loaded page
Next ==
    \/ \E q \in Points : handleMouseMove(At(q)) /\ UNCHANGED pureVars
    \/ HoverCheck /\ UNCHANGED pureVars
    \/ handleMouseDown /\ UNCHANGED pureVars
    \/ handleMouseUp /\ UNCHANGED pureVars
    \/ handleMouseLeave /\ UNCHANGED pureVars
    \/ KeyDelete /\ UNCHANGED pureVars
    \/ KeySpaceDown /\ UNCHANGED pureVars
    \/ KeyEscape /\ UNCHANGED pureVars
    \/ handleKeyUp /\ UNCHANGED pureVars
    \/ \E animating \in BOOLEAN : Frame(animating) /\ UNCHANGED pureVars

Spec == Init /\ [][Next]_vars

\* the resolver alone, asked once about an input drawn at the start
InitResolver == InitEditor /\ InitHoverInputs /\ InitGeo /\ InitAnim
SpecHover == InitResolver /\ [][NextHover]_vars

\* selection, copy, delete, undo and remote sync on a loaded page
DataPoints == {<<60, 100>>}
NextData ==
    \/ \E q \in DataPoints : handleMouseMove(At(q)) /\ UNCHANGED pureVars
    \/ HoverCheck /\ UNCHANGED pureVars
    \/ handleMouseDown /\ UNCHANGED pureVars
    \/ handleMouseUp /\ UNCHANGED pureVars
    \/ KeyDelete /\ UNCHANGED pureVars
    \/ KeyUndo /\ UNCHANGED pureVars
    \/ KeyCopy /\ UNCHANGED pureVars
    \/ \E scene \in Scenes : PageStateSynced(SceneOf(scene)) /\ UNCHANGED pureVars
    \/ \E animating \in BOOLEAN : Frame(animating) /\ UNCHANGED pureVars

SpecData == Init /\ [][NextData]_vars

\* redraw requests and frames while documents are (re)loaded
NextFrames ==
    \/ \E q \in Points : handleMouseMove(At(q)) /\ UNCHANGED pureVars
    \/ HoverCheck /\ UNCHANGED pureVars
    \/ handleMouseLeave /\ UNCHANGED pureVars
    \/ KeyEscape /\ UNCHANGED pureVars
    \/ loadDocument /\ UNCHANGED pureVars
    \/ \E scene \in Scenes : DocumentLoaded(SceneOf(scene)) /\ UNCHANGED pureVars
    \/ \E scene \in Scenes : PageStateSynced(SceneOf(scene)) /\ UNCHANGED pureVars
    \/ \E animating \in BOOLEAN : Frame(animating) /\ UNCHANGED pureVars

SpecFrames == Init /\ [][NextFrames]_vars

\* wheel zoom, pan and drag on a page opened at the zoom that fits it
InitCamera ==
    /\ \E page \in PageSizes : InitEditorWith(calculateInitialZoom(page))
    /\ InitHover /\ InitGeo /\ InitAnim

NextCamera ==
    \/ \E q \in CameraPoints : ExactAt(At(q)) /\ handleMouseMove(At(q)) /\ UNCHANGED pureVars
    \/ \E zoomOut \in BOOLEAN : handleWheel(zoomOut) /\ UNCHANGED pureVars
    \/ ~IsNull(pointer) /\ ExactAt(Val(pointer)) /\ handleMouseDown /\ UNCHANGED pureVars
    \/ handleMouseUp /\ UNCHANGED pureVars
    \/ KeySpaceDown /\ UNCHANGED pureVars
    \/ handleKeyUp /\ UNCHANGED pureVars
    \/ loadDocument /\ UNCHANGED pureVars
    \/ DocumentLoaded(SceneOf(CameraScene)) /\ UNCHANGED pureVars

SpecCamera == InitCamera /\ [][NextCamera]_vars

\* frames, playing and page changes over the animated shapes
InitAnimation ==
    /\ InitEditor /\ InitHover /\ InitGeo
    /\ animShapes \in AnimPages
    /\ now = 0
    /\ isAutoPlaying = FALSE
    /\ lastFrame = <<>>

NextAnimation ==
    \/ AnimFrame
    \/ toggleAutoPlay
    \/ \E page \in AnimPages : AnimLoadPage(page)
    \/ \E page \in AnimPages : AnimPageSynced(page)
    \/ \E k \in 1..MaxAnimShapes : AnimPaste(k)

SpecAnimation == InitAnimation /\ [][NextAnimation]_vars

\* selecting, text editing and the Delete and Escape keys on a page with a text
InitKeys == InitEditor /\ InitHover /\ InitGeo /\ InitAnim

NextKeys ==
    \/ \E q \in KeyPoints : handleMouseMove(At(q)) /\ UNCHANGED pureVars
    \/ handleMouseDownEditing /\ UNCHANGED <<hoverVars, geoVars, animVars, imageVars, playVars, restVars>>
    \/ handleDoubleClick /\ UNCHANGED <<hoverVars, geoVars, animVars, imageVars, playVars, restVars>>
    \/ handleMouseUp /\ UNCHANGED pureVars
    \/ \E inField \in BOOLEAN :
          handleKeyDownDelete(inField) /\ UNCHANGED <<hoverVars, geoVars, animVars, imageVars, playVars, restVars>>
    \/ handleKeyDownEscape /\ UNCHANGED <<hoverVars, geoVars, animVars, imageVars, playVars, restVars>>
    \/ loadDocument /\ UNCHANGED pureVars
    \/ DocumentLoaded(KeyScene) /\ UNCHANGED pureVars

SpecKeys == InitKeys /\ [][NextKeys]_vars

\* the functions a frame draws with, each asked once about an input drawn
\* at the start
InitRender ==
    /\ InitEditor /\ InitHover /\ InitAnim
    /\ geoIn \in AnimInputs \cup CullInputs \cup CoordInputs \cup CursorInputs
    /\ geoOut = <<>>

NextRender ==
    \/ AnimStateStep
    \/ CullStep
    \/ CoordStep
    \/ CursorStep

SpecRender == InitRender /\ [][NextRender]_vars

\* pressing and dragging on a page of two shapes while hover checks fire
DragPoints == {<<60, 100>>,    \* over A only
               <<100, 120>>}   \* over B only
InitDrag == InitEditor /\ InitHover /\ InitGeo /\ InitAnim

NextDrag ==
    \/ \E q \in DragPoints : handleMouseMove(At(q)) /\ UNCHANGED pureVars
    \/ HoverCheck /\ UNCHANGED pureVars
    \/ handleMouseDown /\ UNCHANGED pureVars
    \/ handleMouseUp /\ UNCHANGED pureVars
    \/ KeyEscape /\ UNCHANGED pureVars
    \/ loadDocument /\ UNCHANGED pureVars
    \/ DocumentLoaded(SceneOf("AB")) /\ UNCHANGED pureVars

SpecDrag == InitDrag /\ [][NextDrag]_vars

\* sessions one after the other, ended by pointer-up or pointer-leave, and
\* undo; the button goes down only while it is up
UndoMoves == 2
InitUndo ==
    /\ InitEditorFor(InitialZoom, <<>>, UndoMoves, MaxHistory)
    /\ InitHover /\ InitGeo /\ InitAnim

NextUndo ==
    \/ \E q \in Points : handleMouseMove(At(q)) /\ UNCHANGED pureVars
    \/ HoverCheck /\ UNCHANGED pureVars
    \/ ~mouseState.isMouseDown /\ handleMouseDown /\ UNCHANGED pureVars
    \/ handleMouseUp /\ UNCHANGED pureVars
    \/ handleMouseLeave /\ UNCHANGED pureVars
    \/ KeyUndo /\ UNCHANGED pureVars

SpecUndo == InitUndo /\ [][NextUndo]_vars

\* one copy, then paste and delete in turn, and undo, with every snapshot
\* kept: the pointer selects a shape and never moves it
KeepAllHistory == 31
InitHistory ==
    /\ InitEditorFor(InitialZoom, <<>>, 0, KeepAllHistory)
    /\ InitHover /\ InitGeo /\ InitAnim

NextHistory ==
    \/ handleMouseMove(At(<<60, 100>>)) /\ UNCHANGED pureVars
    \/ HoverCheck /\ UNCHANGED pureVars
    \/ ~mouseState.isMouseDown /\ handleMouseDown /\ UNCHANGED pureVars
    \/ handleMouseUp /\ UNCHANGED pureVars
    \/ IsNull(clipboard) /\ KeyCopy /\ UNCHANGED pureVars
    \/ Len(shapes) = Len(InitialScene) /\ KeyPaste /\ UNCHANGED pureVars
    \/ /\ Len(shapes) > Len(InitialScene)
       /\ selectedShape.index = Len(shapes) - 1
       /\ KeyDelete /\ UNCHANGED pureVars
    \/ KeyUndo /\ UNCHANGED pureVars

SpecHistory == InitHistory /\ [][NextHistory]_vars

\* the socket client over connections that open, fail, drop and are closed
NextSocket ==
    \/ WsOnOpen /\ UNCHANGED <<editorVars, pureExceptWs>>
    \/ WsOnClose /\ UNCHANGED <<editorVars, pureExceptWs>>
    \/ WsHeartbeat /\ UNCHANGED <<editorVars, pureExceptWs>>
    \/ WsReconnect /\ UNCHANGED <<editorVars, pureExceptWs>>
    \/ WsClose /\ UNCHANGED <<editorVars, pureExceptWs>>
    \/ \E frame \in Frames : WsOnMessage(frame) /\ UNCHANGED <<editorVars, pureExceptWs>>
    \/ \E listener \in Listeners :
            addMessageListener(listener) /\ UNCHANGED <<editorVars, pureExceptWs>>
    \/ \E listener \in Listeners :
            removeMessageListener(listener) /\ UNCHANGED <<editorVars, pureExceptWs>>

SpecSocket == Init /\ [][NextSocket]_vars

\* font-size searches over texts and boxes of every fit
NextFit ==
    \/ \E range \in FontRanges, emptyText \in BOOLEAN, smallBox \in BOOLEAN :
            /\ calculateFitFontSize(range[1], range[2], emptyText, smallBox)
            /\ UNCHANGED <<editorVars, pureExceptFit>>
    \/ \E fits \in BOOLEAN : FitStep(fits) /\ UNCHANGED <<editorVars, pureExceptFit>>
    \/ FitReturn /\ UNCHANGED <<editorVars, pureExceptFit>>

SpecFit == Init /\ [][NextFit]_vars

\* shape_created events and the image loads they start
NextRemote ==
    \/ \E id \in RemoteIds, url \in BOOLEAN :
            ShapeCreated(RemoteShape(id), url) /\ UNCHANGED pureExceptRemote
    \/ \E k \in 1..MaxRemoteLoads, image \in BOOLEAN :
            RemoteImageLoaded(k, image) /\ UNCHANGED pureExceptRemote
    \/ Frame(FALSE) /\ UNCHANGED pureVars

SpecRemote == Init /\ [][NextRemote]_vars

\* auto-play over a document of three pages
InitPlay ==
    /\ InitEditor /\ InitHover /\ InitGeo
    /\ animShapes = PlayPage(0)
    /\ now = 0
    /\ isAutoPlaying = FALSE
    /\ lastFrame = <<>>

NextPlay ==
    \/ \E time \in 0..MaxPlayTime : PlayFrame(time)
    \/ PlayTimer
    \/ \E pageIndex \in 0..(Len(PlayDocument) - 1) : PlaySwitch(pageIndex)
    \/ PlayToggle

SpecPlay == InitPlay /\ [][NextPlay]_vars

\* frames, pans and settling loads on a page of images
InitImages ==
    /\ InitEditorOn(InitialZoom, ImageScene)
    /\ InitHover /\ InitGeo /\ InitAnim

NextImages ==
    \/ ImageFrame
    \/ \E k \in 1..Len(ImageScene), bytes \in {"good", "bad", "none"} : ImageLoaded(k, bytes)
    \/ \E deltaX \in {to - cameraState.panX : to \in ImagePanXs} \ {0} : ImagePan(deltaX)

SpecImages == InitImages /\ [][NextImages]_vars

\* one geometry function, asked once about an input drawn at the start
InitGeometry ==
    /\ InitEditor /\ InitHover /\ InitAnim
    /\ geoIn \in HitInputs \cup BodyInputs \cup ResizeInputs \cup RotateInputs
                 \cup DeltaInputs
    /\ geoOut = <<>>

NextGeometry ==
    \/ HitTest
    \/ ResolveBody
    \/ ResizeStep
    \/ RotateStep
    \/ RotationDelta

SpecGeometry == InitGeometry /\ [][NextGeometry]_vars

\* ------------------------------------------------------------------------
\* Properties
\* ------------------------------------------------------------------------
PanApplies == cameraState.isPanning /\ mouseState.isMouseDown
SelectionValid == isValidShapeIndex(selectedShape.index)
MoveStep == last'.op = "mousemove"

C2_AtMostOneSession == Cardinality(OpenSessions) <= 1

\* C3: after a pointer-up or a pointer-leave no session is open and the three
\* session objects are null.
C3_NoSessionAfterUpOrLeave ==
    last.op \in {"mouseup", "mouseleave"} =>
        /\ ~mouseState.isDragging
        /\ resizingCorner = NO_CORNER
        /\ IsNull(resizeStartState)
        /\ IsNull(rotationStartState)

\* a pointer-up or pointer-leave has ended a gesture that transformed a shape
C3_Witness ==
    /\ last.op \in {"mouseup", "mouseleave"}
    /\ transforms < MaxTransforms /\ history # <<>>
    /\ OpenSessions = {}

\* C4: the session a pointer-down opens is one whose handle (rotate, resize)
\* or body (drag) lies under the pointer-down position.
C4_SessionOpensUnderPointer ==
    last.op = "mousedown" /\ last.branch \in {"rotate", "resize", "drag"} =>
        LET worldPos == World(Val(pointer))
            shape == shapes[selectedShape.index + 1]
        IN CASE last.branch = "rotate" ->
                    isHoveringRotateCircle(worldPos, shape, cameraState.zoom, shape.rotate)
             [] last.branch = "resize" ->
                    getHoveredResizeCorner(worldPos, shape, cameraState.zoom,
                                           shape.rotate) # NO_CORNER
             [] last.branch = "drag" ->
                    isValidShapeIndex(findShapeAtPoint(worldPos, shapes))

\* C5: with no session open the live-transform state is INVALID / null.
C5_TransformStateOnlyInSession ==
    OpenSessions = {} =>
        transformingShapeIndex = INVALID_INDEX /\ transformationType = "null"

\* C6: at most one frame callback is pending, and a frame draws the scene at
\* most once.
C6_OneCallbackOneDraw ==
    /\ scheduledFrames + loadingLoops <= 1
    /\ last.draws <= 1

\* C7: no draw, pointer handler, copy or delete throws, whatever index the
\* selection or the hover holds.
C7_StaleIndexNeverThrows ==
    last.op \in {"frame", "mousemove", "mousedown", "mouseup", "copy", "delete"} =>
        ~last.threw

\* C8: when the selected index is invalid and a rotate or resize session is
\* open, a pointer-move (not taken by the pan) changes no shape and closes the
\* session.
C8_InvalidSelectionClosesSession ==
    [][(MoveStep /\ ~PanApplies /\ ~SelectionValid /\ (RotateOpen \/ ResizeOpen)) =>
        /\ shapes' = shapes
        /\ (RotateOpen => IsNull(rotationStartState'))
        /\ (ResizeOpen /\ ~RotateOpen =>
                resizingCorner' = NO_CORNER /\ IsNull(resizeStartState'))]_vars

\* C10: at most one of the three hover fields is active.
HoverActive ==
    (IF hoverState.isHoveringRotateCircle THEN {"rotate"} ELSE {})
    \cup (IF hoverState.resizeCorner # NO_CORNER THEN {"corner"} ELSE {})
    \cup (IF hoverState.shapeIndex # INVALID_INDEX THEN {"shape"} ELSE {})
C10_OneHoverFieldActive == Cardinality(HoverActive) <= 1

\* the hover check has found the resize corner of the selected shape, which
\* also lies on that shape's body
C10_Witness ==
    /\ last.op = "hovercheck"
    /\ hoverState.resizeCorner # NO_CORNER
    /\ SelectionValid
    /\ findShapeAtPoint(World(Val(pointer)), shapes) = selectedShape.index

\* C9: a point within hit radius of both the rotation handle and a resize
\* corner of the selected shape resolves to the rotation handle and a null
\* resize corner.
OverHandle(in) ==
    isHoveringRotateCircle(InPoint(in), InShape(in), InZoom(in), InRotation(in))
OverCorner(in) ==
    getHoveredResizeCorner(InPoint(in), InShape(in), InZoom(in), InRotation(in)) # NO_CORNER
C9_RotateHandleBeatsCorner ==
    Asked(hoverIn) /\ OverHandle(hoverIn) /\ OverCorner(hoverIn) =>
        hoverOut.isHoveringRotateCircle /\ hoverOut.resizeCorner = NO_CORNER

\* the resolver was asked about a point within reach of both
C9_Witness ==
    /\ Asked(hoverIn) /\ OverHandle(hoverIn) /\ OverCorner(hoverIn)
    /\ hoverOut.isHoveringRotateCircle

\* the point and the shape list of a hit-test or body-resolve input
GeoPoint(in) == Pt(in[3], in[4])
GeoList(in) == GeoSceneOf(in[5])
\* the indices of the shapes whose bounds, edges included, contain the point
Containing(point, shapeList) ==
    {i \in 0..(Len(shapeList) - 1) :
        /\ shapeList[i + 1].x <= point.x
        /\ point.x <= shapeList[i + 1].x + shapeList[i + 1].width
        /\ shapeList[i + 1].y <= point.y
        /\ point.y <= shapeList[i + 1].y + shapeList[i + 1].height}
Topmost(point, shapeList) ==
    IF Containing(point, shapeList) = {} THEN INVALID_INDEX
    ELSE CHOOSE i \in Containing(point, shapeList) :
            \A j \in Containing(point, shapeList) : j <= i

\* C11: when the topmost shape under the point is the selected shape, the
\* resolver reports no body-hovered shape (shapeIndex is INVALID).
C11_SelectedShapeNotBodyHovered ==
    (GeoDone("body") /\ isValidIn(GeoList(geoIn), geoIn[6])
        /\ Topmost(GeoPoint(geoIn), GeoList(geoIn)) = geoIn[6]) =>
            geoOut.shapeIndex = INVALID_INDEX

\* the point lies on the body of the selected shape, off its handles, and
\* under no shape drawn later
C11_Witness ==
    /\ GeoDone("body") /\ geoIn[6] = 0 /\ Len(GeoList(geoIn)) = 2
    /\ Topmost(GeoPoint(geoIn), GeoList(geoIn)) = 0
    /\ ~geoOut.isHoveringRotateCircle /\ geoOut.resizeCorner = NO_CORNER
    /\ geoOut.shapeIndex = INVALID_INDEX

\* C12: the hit test returns the highest index among the shapes whose bounds
\* (edges included) contain the point, and -1 when there is none.
C12_HitTestTopmost ==
    GeoDone("hit") => geoOut = Topmost(GeoPoint(geoIn), GeoList(geoIn))

\* the point lies on an edge of the topmost of several shapes containing it
C12_Witness ==
    /\ GeoDone("hit")
    /\ Cardinality(Containing(GeoPoint(geoIn), GeoList(geoIn))) >= 2
    /\ geoOut >= 1
    /\ GeoPoint(geoIn).x = GeoList(geoIn)[geoOut + 1].x

\* the dimensions before the minimum-size clamp
RawDimensions(in) ==
    LET st == initializeResize(ResizeStart(in), ResizeCornerPoint(in))
    IN calculateDimensionsFromAnchor(getAnchorPoint(in[5], st.shape),
            LocalMouse(st, Pt(in[6], in[7]), st.shape.rotate), st.aspectRatio)

\* C13: after a resize move width / height equals the aspect ratio of the
\* shape at session start, with or without the minimum-size clamp.
C13_ResizeKeepsAspect ==
    GeoDone("resize") =>
        geoOut.width * ResizeStart(geoIn).height = geoOut.height * ResizeStart(geoIn).width

\* a text shape was resized below the minimum and the clamp changed its size
C13_Witness ==
    /\ GeoDone("resize") /\ geoOut.kind = "text"
    /\ RawDimensions(geoIn).width < MIN_SIZE
    /\ geoOut.width = MIN_SIZE

\* C14: after a resize move the width and the height are at least MIN_SIZE.
C14_ResizeAtLeastMinSize ==
    GeoDone("resize") => geoOut.width >= MIN_SIZE /\ geoOut.height >= MIN_SIZE

\* C15: after a rotate move the rotation of the shape lies in [0, 360).
C15_RotationNormalized ==
    GeoDone("rotate") => geoOut.rotate >= 0 /\ geoOut.rotate < 360

\* the sum of the initial rotation and the delta left [0, 360) and was wrapped
C15_Witness ==
    /\ GeoDone("rotate")
    /\ geoIn[3] = 359 /\ geoIn[4] = "right" /\ geoIn[5] = "below"
    /\ geoOut.rotate = 89

\* C16: the rotation delta lies in [-180, 180] and differs from current -
\* initial by a multiple of 360; from 350 to 10 degrees it is +20.
C16_DeltaShortWay ==
    GeoDone("delta") =>
        /\ geoOut >= -180 /\ geoOut <= 180
        /\ (geoOut - (geoIn[4] - geoIn[3])) % 360 = 0
        /\ (geoIn[3] = 350 /\ geoIn[4] = 10 => geoOut = 20)

\* the delta from 350 to 10 degrees was computed
C16_Witness == GeoDone("delta") /\ geoIn[3] = 350 /\ geoIn[4] = 10 /\ geoOut = 20

\* C18: the unrotated shape {0, 0, 100, 50} resized from its bottom-right
\* corner to (200, 120) becomes 200 wide and 100 high with its origin unchanged.
ScenarioResize ==
    /\ GeoDone("resize") /\ geoIn[3] = "wide" /\ geoIn[4] = 0
    /\ geoIn[5] = "bottom-right" /\ geoIn[6] = 200 /\ geoIn[7] = 120
C18_ScenarioBottomRight ==
    ScenarioResize =>
        geoOut.width = 200 /\ geoOut.height = 100 /\ geoOut.x = 0 /\ geoOut.y = 0

\* the scenario was run
C18_Witness == ScenarioResize /\ geoOut.width = 200

\* C19: after any sequence of wheel, pan and page-load operations the camera
\* zoom is at least MIN_CAMERA_ZOOM (0.2) and at most MAX_CAMERA_ZOOM (10).
C19_ZoomWithinBounds ==
    /\ ~FracLess(cameraState.zoom, MIN_CAMERA_ZOOM)
    /\ ~FracLess(MAX_CAMERA_ZOOM, cameraState.zoom)
\* a wheel step out at the minimum zoom, clamped back to it
C19_Witness ==
    /\ last.op = "wheel"
    /\ last.branch = "out"
    /\ cameraState.zoom = MIN_CAMERA_ZOOM

\* the shape a drag move drags: the hovered one, else the selected one
DraggedIndex ==
    IF isValidShapeIndex(hoverState.shapeIndex) THEN hoverState.shapeIndex
    ELSE selectedShape.index

\* C17: on each pointer move of a drag session the dragged shape's x and y
\* change by exactly (current - last) / zoom on each axis, the world-space
\* delta between the last and the current pointer position, and its width,
\* height and rotation do not change.
C17_DragByWorldDelta ==
    [][(last'.op = "mousemove" /\ last'.branch = "drag"
        /\ isValidShapeIndex(DraggedIndex))
       => LET before == shapes[DraggedIndex + 1]
              after == shapes'[DraggedIndex + 1]
              zoom == cameraState.zoom
          IN /\ Len(shapes') = Len(shapes)
             /\ (after.x - before.x) * zoom.num
                    = (Val(pointer').x - mouseState.lastMouseX) * zoom.den
             /\ (after.y - before.y) * zoom.num
                    = (Val(pointer').y - mouseState.lastMouseY) * zoom.den
             /\ after.width = before.width
             /\ after.height = before.height
             /\ after.rotate = before.rotate]_vars
\* a drag move at a zoom other than 1 has moved the first shape off its place
C17_Witness ==
    /\ last.op = "mousemove"
    /\ last.branch = "drag"
    /\ transformationType = "drag"
    /\ cameraState.zoom # InitialZoom
    /\ \E k \in 1..Len(shapes) : shapes[k].id = 1 /\ shapes[k].x # ShapeA.x

AnimStartOf(in) == Val(geoOut[3][2])
AnimDurationOf(in) == IF IsNull(in[5]) THEN DEFAULT_ANIMATION_DURATION ELSE Val(in[5])
AnimDelayOf(in) == IF IsNull(in[6]) THEN 0 ELSE Val(in[6])
AnimComputed == GeoDone("anim") /\ ~geoIn[10] /\ geoIn[3] # "none"

\* C21: for frame times t0 < t1 within [delay, delay + duration] after the
\* animation start, progress(t1) >= progress(t0); for every t >= delay +
\* duration after the start progress is exactly 1 and the shape is no longer
\* animating.
C21_ProgressMonotoneSaturating ==
    AnimComputed =>
        LET e0 == geoIn[8] - AnimStartOf(geoIn)
            e1 == geoIn[9] - AnimStartOf(geoIn)
            lo == AnimDelayOf(geoIn)
            hi == AnimDelayOf(geoIn) + AnimDurationOf(geoIn)
        IN /\ (lo <= e0 /\ e1 <= hi)
                => (~IsNaN(geoOut[1].progress) /\ ~IsNaN(geoOut[2].progress)
                    /\ ~NumLess(geoOut[2].progress, geoOut[1].progress))
           /\ e0 >= hi => (geoOut[1].progress = Whole(1) /\ ~geoOut[1].isAnimating)
           /\ e1 >= hi => (geoOut[2].progress = Whole(1) /\ ~geoOut[2].isAnimating)

\* C22: with forceFinalState set, the computed animation state is the settled
\* one (drawn, alpha 1, no clip, zero offsets, progress 1, not animating) for
\* every animation kind and time, and the shape's animation start time is
\* left exactly as it was, including unset.
C22_ForcedIsSettled ==
    (GeoDone("anim") /\ geoIn[10])
        => /\ geoOut[1] = SettledState
           /\ geoOut[2] = SettledState
           /\ geoOut[3] = AnimShape(geoIn[3], geoIn[4])
           /\ geoOut[4] = AnimShape(geoIn[3], geoIn[4])
\* a forced frame over a fade that has not started, inside its delay
C22_Witness ==
    /\ GeoDone("anim")
    /\ geoIn[10]
    /\ geoIn[3] = "fade"
    /\ IsNull(geoIn[4])
    /\ geoIn[6] = Some(2)
    /\ geoOut[1].alpha = Whole(1)
    /\ IsNull(geoOut[4][2])

\* C23: a Delete or Backspace key press removes exactly the selected shape,
\* keeping the other shapes in order and clearing the selection, when no text
\* edit is active; while a text edit is active (the text editor is open, or
\* the key goes to an input or a textarea) it changes neither the shape list
\* nor the selection.
C23_DeleteUnlessEditing ==
    [][last'.op = "delete"
       => IF isTextEditing \/ last'.branch = "field"
          THEN shapes' = shapes /\ selectedShape' = selectedShape
          ELSE isValidShapeIndex(selectedShape.index)
               => /\ Len(shapes') = Len(shapes) - 1
                  /\ \A k \in 1..Len(shapes') :
                        shapes'[k] = IF k - 1 < selectedShape.index
                                     THEN shapes[k] ELSE shapes[k + 1]
                  /\ selectedShape' = createSelectedShape]_vars
\* Delete has been pressed during a text edit: the edited text is still
\* there and selected
C23_Witness ==
    /\ last = Did("delete", "editing")
    /\ isTextEditing
    /\ Len(shapes) = 2
    /\ selectedShape.index = Val(activeTextEditor)
    /\ shapes[selectedShape.index + 1].kind = "text"
\* the whole points of a closed rectangle
RectPoints(left, top, right, bottom) == {<<px, py>> : px \in left..right, py \in top..bottom}

\* C24: a shape is culled exactly when its rectangle lies strictly beyond one
\* viewport edge, that is when the closed rectangle and the closed viewport
\* share no point: a shape entirely left of viewport.left is excluded, a shape
\* that touches or overlaps exactly one viewport edge is included.
C24_CulledWhenBeyondAnEdge ==
    GeoDone("cull")
        => /\ geoOut = (RectPoints(geoIn[3], geoIn[4], geoIn[3] + geoIn[5],
                                   geoIn[4] + geoIn[6])
                          \cap RectPoints(CullViewport.left, CullViewport.top,
                                          CullViewport.right, CullViewport.bottom) # {})
           /\ geoIn[3] + geoIn[5] < CullViewport.left => ~geoOut
\* a shape whose right side lies on the viewport's left edge is drawn
C24_Witness ==
    /\ GeoDone("cull")
    /\ geoIn[3] + geoIn[5] = CullViewport.left
    /\ geoIn[4] > CullViewport.top
    /\ geoIn[4] + geoIn[6] < CullViewport.bottom
    /\ geoOut

\* C25: for every camera state and every point p,
\* screenToWorld(worldToScreen(p)) = p, where screenToWorld(sx, sy) is
\* ((sx - panX) / zoom, (sy - panY) / zoom).
C25_RoundTrip ==
    GeoDone("coords")
        => /\ geoOut[2] = Pt(Whole(geoIn[3]), Whole(geoIn[4]))
           /\ geoOut[3].x[1] * geoIn[5][1] = (geoIn[3] - geoIn[6]) * geoIn[5][2] * geoOut[3].x[2]
           /\ geoOut[3].y[1] * geoIn[5][1] = (geoIn[4] - geoIn[7]) * geoIn[5][2] * geoOut[3].y[2]
\* a point off the origin under a zoom of 1.1 and a pan, on a fractional pixel
C25_Witness ==
    /\ GeoDone("coords")
    /\ geoIn[5] = <<11, 10>>
    /\ geoIn[3] = 3
    /\ geoIn[6] = 100
    /\ geoOut[1].x = <<1033, 10>>
    /\ geoOut[2].x = Whole(3)

\* the local-space offset of the pointer from the anchor, as magnitudes
ResizeOffset(in) ==
    LET st == initializeResize(ResizeStart(in), ResizeCornerPoint(in))
        anchor == getAnchorPoint(in[5], st.shape)
        local == LocalMouse(st, Pt(in[6], in[7]), st.shape.rotate)
    IN [dx |-> Abs(local.x - anchor.x), dy |-> Abs(local.y - anchor.y)]

OppositeCorner(corner) ==
    CASE corner = "top-left" -> "bottom-right"
      [] corner = "top-right" -> "bottom-left"
      [] corner = "bottom-left" -> "top-right"
      [] corner = "bottom-right" -> "top-left"
\* where a corner of the shape is drawn, in half world units: the shape is
\* drawn rotated about its own centre
CanvasCorner2(shape, corner) ==
    rotatePoint(getShapeCorners2(shape)[corner], getShapeCenter2(shape), RotationOf(shape))

\* C27: throughout a resize session the anchor, the corner diagonally opposite
\* the dragged one, stays at the same position on the canvas after every
\* pointer move, for each of the four corners and for rotated as well as
\* unrotated shapes.
C27_AnchorStaysOnCanvas ==
    GeoDone("resize") =>
        CanvasCorner2(geoOut, OppositeCorner(geoIn[5]))
            = CanvasCorner2(ResizeStart(geoIn), OppositeCorner(geoIn[5]))

\* C28: a resize move whose pointer coincides with the anchor (a zero-length
\* delta) leaves the shape's geometry unchanged, so that resize never yields
\* a NaN or infinite width or height.
C28_ZeroDeltaNoChange ==
    (GeoDone("resize") /\ ResizeOffset(geoIn).dx = 0 /\ ResizeOffset(geoIn).dy = 0)
        => /\ geoOut.x = ResizeStart(geoIn).x
           /\ geoOut.y = ResizeStart(geoIn).y
           /\ geoOut.width = ResizeStart(geoIn).width
           /\ geoOut.height = ResizeStart(geoIn).height

\* the rules of the cursor choice, on a cursor input
OnRotateHandle == geoIn[3] /\ geoIn[6]
OnResizeHandle == geoIn[4] # NO_CORNER /\ geoIn[6]
OnBody == geoIn[5]
InPanMode == geoIn[7]
GrabCursor == IF geoIn[8] THEN CURSOR_GRABBING ELSE CURSOR_GRAB
BodyCursor == IF geoIn[9] THEN CURSOR_GRABBING ELSE CURSOR_POINTER
ResizeCursors == {"ns-resize", "ew-resize", "nwse-resize", "nesw-resize"}

\* C29, as stated: the cursor is chosen by the first matching rule in this
\* order: rotate-handle hover (grab, or grabbing while the button is down),
\* resize-handle hover (directional resize cursor), body hover (pointer, or
\* grabbing while a drag is active), panning mode (grab / grabbing), otherwise
\* default.
C29_CursorPanLast ==
    GeoDone("cursor") =>
        IF OnRotateHandle THEN geoOut = GrabCursor
        ELSE IF OnResizeHandle THEN geoOut \in ResizeCursors
        ELSE IF OnBody THEN geoOut = BodyCursor
        ELSE IF InPanMode THEN geoOut = GrabCursor
        ELSE geoOut = CURSOR_DEFAULT

\* C29, amended: the cursor is chosen by the first matching rule in this
\* order: rotate-handle hover of the selected shape (grab, or grabbing while
\* the button is down), panning mode (grab / grabbing), resize-handle hover of
\* the selected shape (directional resize cursor), body hover (pointer, or
\* grabbing while a drag is active), otherwise default.
C29_CursorPanBeforeHandles ==
    GeoDone("cursor") =>
        IF OnRotateHandle THEN geoOut = GrabCursor
        ELSE IF InPanMode THEN geoOut = GrabCursor
        ELSE IF OnResizeHandle THEN geoOut \in ResizeCursors
        ELSE IF OnBody THEN geoOut = BodyCursor
        ELSE geoOut = CURSOR_DEFAULT
\* pan mode while the pointer is over a shape's body: the cursor is grab
C29_Witness ==
    /\ GeoDone("cursor")
    /\ InPanMode /\ OnBody /\ ~OnRotateHandle /\ ~OnResizeHandle
    /\ ~geoIn[8] /\ ~geoIn[9]
    /\ geoOut = CURSOR_GRAB

\* the step is a settled load whose bytes did not decode, for shape k
DecodeFailedFor(k) ==
    /\ imageLog'.op = "decode failed"
    /\ k \in imageLoads /\ k \notin imageLoads'
\* the step is a frame drawn, and it starts a load for shape k
LoadStartedFor(k) == imageLog'.op = "frame" /\ k \in imageLog'.started
\* a failed decode leaves the image null, and no frame draws a null image
FailedImageSkipped ==
    [][\A k \in 1..Len(imageShapes) :
          /\ DecodeFailedFor(k) => IsNull(imageShapes'[k].image)
          /\ imageLog'.op = "frame" /\ IsNull(imageShapes[k].image)
                => k \notin imageLog'.drawn]_vars
\* C30: after an image decode fails the shape keeps a null image and is
\* skipped by draw, and a new load for it is started only when it re-enters
\* the viewport: no frame starts one for a shape that has been in view under
\* every camera since the failure.
C30_RetryOnlyOnReentry ==
    [][\A k \in 1..Len(imageShapes) :
          /\ DecodeFailedFor(k) => IsNull(imageShapes'[k].image)
          /\ imageLog'.op = "frame" /\ IsNull(imageShapes[k].image)
                => k \notin imageLog'.drawn
          /\ LoadStartedFor(k) => k \notin imageStale]_vars
\* a load is never started for a url that has one in flight
OneLoadPerUrl ==
    [][\A k \in 1..Len(imageShapes) :
          LoadStartedFor(k) => imageShapes[k].url \notin loadingImageUrls]_vars

\* the phase a frame reports: 3 settled (progress 1, not animating), 1 inside
\* the delay, 2 after it
AnimPhase(state, elapsed, delay) ==
    IF state.progress = Whole(1) /\ ~state.isAnimating THEN 3
    ELSE IF elapsed < delay THEN 1
    ELSE 2
\* C31: over two frames at increasing times with no restart between them the
\* phase of a shape's animation never moves back (delaying, running,
\* settled), and once a frame reports progress 1 and not animating the later
\* frame reports the same.
C31_PhasesOnlyForward ==
    AnimComputed =>
        LET e0 == geoIn[8] - AnimStartOf(geoIn)
            e1 == geoIn[9] - AnimStartOf(geoIn)
            p0 == AnimPhase(geoOut[1], e0, AnimDelayOf(geoIn))
            p1 == AnimPhase(geoOut[2], e1, AnimDelayOf(geoIn))
        IN /\ geoOut[3][2] = geoOut[4][2]
           /\ p0 <= p1
           /\ p0 = 3 => (geoOut[2].progress = Whole(1) /\ ~geoOut[2].isAnimating)
\* a fade of duration 2 started at 0: settled at frame 2, and still at frame 5
C31_Witness ==
    /\ AnimComputed
    /\ geoIn[3] = "fade" /\ geoIn[4] = Some(0) /\ geoIn[5] = Some(2) /\ IsNull(geoIn[6])
    /\ geoIn[8] = 2 /\ geoIn[9] = 5
    /\ geoOut[1] = SettledState /\ geoOut[2] = SettledState

\* shape k of the page shown has its delay and duration behind it at `time`
PlaySettled(k, time) ==
    LET shape == PlayDocument[currentPageIndex + 1][k]
        duration == IF IsNull(shape.duration) THEN DEFAULT_ANIMATION_DURATION
                    ELSE Val(shape.duration)
        delay == IF IsNull(shape.delay) THEN 0 ELSE Val(shape.delay)
    IN /\ ~IsNull(animShapes[k][2])
       /\ time - Val(animShapes[k][2]) >= delay + duration
\* the same, for the shapes a frame draws only
VisibleSettled(k, time) == PlayDrawn(k) => PlaySettled(k, time)
\* a frame advances the page only once the animated shapes it draws have settled
AdvanceWhenDrawnSettled ==
    [][playLog' = "frame advanced"
          => \A k \in 1..Len(animShapes) :
                animShapes[k][1] # "none" => VisibleSettled(k, now')]_vars
\* C32: in auto-play a frame advances to the next page only once every shape
\* of the current page with a non-none animation has settled (delay plus
\* duration elapsed since its start), the culled shapes and those whose image
\* is not decoded included.
C32_AdvanceWhenAllSettled ==
    [][playLog' = "frame advanced"
          => \A k \in 1..Len(animShapes) :
                animShapes[k][1] # "none" => PlaySettled(k, now')]_vars

\* C40: while auto-play is off the page index changes only through an
\* explicit page switch, never through a timer or a frame left from playing.
C40_NoAdvanceAfterStop ==
    [][(~isAutoPlaying /\ currentPageIndex' # currentPageIndex)
          => playLog' = "switch"]_vars
\* a frame never changes the page while auto-play is off
NoFrameAdvanceAfterStop ==
    [][(~isAutoPlaying /\ currentPageIndex' # currentPageIndex)
          => playLog' \in {"switch", "timer"}]_vars

\* the step is the callback of the hover timer, and it resolved a hover state
HoverCheckRan ==
    /\ ~IsNull(hoverCheckTimeout)
    /\ IsNull(hoverCheckTimeout')
    /\ last'.op = "hovercheck"
    /\ ~last'.threw
\* C33: the hover check that runs after a burst of pointer moves installs the
\* hover state resolved for the pointer position of the last move of the
\* burst, which is where the pointer is when the check runs.
C33_HoverForLastMove ==
    [][(HoverCheckRan /\ ~IsNull(pointer))
          => hoverState' =
                updateHoverState(hoverState,
                    detectHover(World(Val(pointer)), shapes, selectedShape.index,
                                cameraState.zoom,
                                isValidShapeIndex(selectedShape.index)))]_vars
\* a move during a pending hover check arms no second one and leaves the
\* pending one as it is
OneCheckPerBurst ==
    [][(~IsNull(hoverCheckTimeout) /\ last'.op = "mousemove" /\ last'.branch = "hover")
          => hoverCheckTimeout' = hoverCheckTimeout]_vars

\* the step is a pointer move of a drag session
DragMoved == last'.op = "mousemove" /\ last'.branch = "drag"
\* C34: on every move of a drag session the shape that moves is the shape
\* selected at pointer-down, whatever hover checks ran and keys were pressed
\* since: no other shape of the page changes.
C34_DragMovesPressedShape ==
    [][(DragMoved /\ isValidShapeIndex(selectedShape.index))
          => /\ Len(shapes') = Len(shapes)
             /\ \A k \in 1..Len(shapes) :
                   shapes'[k] # shapes[k] => k - 1 = selectedShape.index]_vars
\* a drag move changes the shape DraggedIndex names and no other
DragMovesDraggedIndex ==
    [][DragMoved
          => /\ Len(shapes') = Len(shapes)
             /\ \A k \in 1..Len(shapes) :
                   shapes'[k] # shapes[k] => k - 1 = DraggedIndex]_vars

SessionTypes == {"drag", "resize", "rotate"}
\* the step is the first pointer move of the session the step before opened
FirstMoveOfSession ==
    /\ last.op = "mousedown" /\ last.branch \in SessionTypes
    /\ last'.op = "mousemove" /\ last'.branch = last.branch
\* the step is a later move of a session
LaterMoveOfSession ==
    /\ last.op = "mousemove" /\ last.branch \in SessionTypes
    /\ last'.op = "mousemove" /\ last'.branch = last.branch
\* C35: every drag, resize or rotate session records exactly one undo
\* snapshot, taken before its first mutation and holding the shapes as they
\* were at its pointer-down, whether the session before it ended by
\* pointer-up or by pointer-leave; the later moves of the session record none.
C35_OneSnapshotPerSession ==
    [][/\ FirstMoveOfSession
            => /\ history' # <<>>
               /\ history'[Len(history')] = [k \in 1..Len(shapes) |-> deepCopy(shapes[k])]
               /\ Len(history') = Min(Len(history) + 1, HistoryWindow)
       /\ LaterMoveOfSession => history' = history]_vars
\* the same for a session that follows one ended by pointer-up
SnapshotAfterPointerUp ==
    [][(FirstMoveOfSession /\ transformationType = "null")
            => /\ history' # <<>>
               /\ history'[Len(history')] = [k \in 1..Len(shapes) |-> deepCopy(shapes[k])]]_vars

\* a snapshot was pushed in this step
SnapshotPushed ==
    /\ history' # history
    /\ last'.op \in {"paste", "delete"}

\* C36: the undo history holds at most 30 snapshots after every operation,
\* and a push onto a history of 30 drops the oldest snapshot and appends
\* the copy of the shapes
C36_HistoryLimit ==
    [][/\ Len(history') <= HISTORY_LIMIT
       /\ (SnapshotPushed /\ Len(history) = HISTORY_LIMIT)
            => history' = Append(Tail(history),
                                 [k \in 1..Len(shapes) |-> deepCopy(shapes[k])])]_vars
\* thirty snapshots are held and the one pushed first is gone
C36_Witness ==
    /\ Len(history) = HISTORY_LIMIT
    /\ last.op \in {"paste", "delete"}
    /\ Len(history[1]) > Len(InitialScene)

\* C37: once close() has been called, no step of the client starts a
\* heartbeat, sends a ping or schedules a reconnect
C37_QuietAfterClose ==
    closeCalled => wsLog \notin {"heartbeat", "ping", "reconnect"}
\* close() came while the socket was being established, the socket then
\* opened, and a ping went out
C37_PingAfterClose ==
    closeCalled /\ wsLog = "ping"
\* once close() has been called, no reconnect is scheduled and no socket made
NoReconnectAfterClose ==
    closeCalled => (wsLog \notin {"reconnect", "connect"} /\ ~reconnectTimeoutId)
\* close() on an open socket: the client stays quiet
QuietAfterCloseWhenOpen ==
    [][(closeCalled' /\ readyState' # "OPEN")
            => wsLog' \notin {"heartbeat", "ping", "reconnect"}]_vars

RECURSIVE Pow2(_)
Pow2(n) == IF n = 0 THEN 1 ELSE 2 * Pow2(n - 1)
FitRan == ~IsNull(fitSearch) /\ Val(fitSearch).iterations > 0

\* C38 as stated: the search makes at most log2(maxFontSize - minFontSize)
\* passes, that is 2^passes <= maxFontSize - minFontSize
C38_Log2Iterations ==
    (FitRan /\ Val(fitSearch).maxFontSize > Val(fitSearch).minFontSize)
        => Pow2(Val(fitSearch).iterations)
               <= Val(fitSearch).maxFontSize - Val(fitSearch).minFontSize
\* C38: the search makes at most floor(log2(maxFontSize - minFontSize + 1)) + 1
\* passes, whatever fits: 11 for the defaults
C38_IterationsBounded ==
    FitRan => Pow2(Val(fitSearch).iterations - 1)
                  <= Val(fitSearch).maxFontSize - Val(fitSearch).minFontSize + 1
\* a search on the defaults returned after 11 passes
C38_Witness ==
    /\ FitRan
    /\ Val(fitSearch).returned
    /\ Val(fitSearch).maxFontSize = MaxFontSize
    /\ Val(fitSearch).minFontSize = MinFontSize
    /\ Val(fitSearch).iterations = 11
\* every search returns a size of its range
FitInRange ==
    (~IsNull(fitSearch) /\ Val(fitSearch).returned)
        => /\ Val(fitSearch).bestFit >= Val(fitSearch).minFontSize
           /\ Val(fitSearch).bestFit <= Val(fitSearch).maxFontSize

UniqueIds == \A i, j \in 1..Len(shapes) : shapes[i].id = shapes[j].id => i = j

\* C39: after any sequence of shape_created events and image loads the
\* shape list holds at most one shape of a given id
C39_OneShapePerId == UniqueIds
\* an event for a shape without image to load never adds a second shape of
\* an id
NoDuplicateWithoutLoad ==
    [][(UniqueIds /\ last'.op = "shapeCreated" /\ last'.branch = "added") => UniqueIds']_vars
\* a second shape of an id comes only from a finished image load
DuplicateOnlyFromLoad ==
    [][(UniqueIds /\ ~UniqueIds')
            => (last'.op = "shapeCreated" /\ last'.branch = "loaded")]_vars

====
